---- MODULE Spec2Model ----
(***************************************************************************)
(* State-machine model of the streaming OCR pipeline of                    *)
(* src/app/withffmpeg.py (class FFmpegStreamOCR): the decode subprocess,   *)
(* the capture thread (_capture_frames) with its JPEG demux loop, the      *)
(* analysis thread (_process_frames), the two queues and the controller    *)
(* operations start(), stop() and get_latest_result().                     *)
(*                                                                         *)
(* Frames are identified by the capture thread's frame_count at the moment *)
(* they are decoded; a result is identified by the frame it was computed   *)
(* from.  The value 0 stands for Python's None.                            *)
(***************************************************************************)
EXTENDS Integers, Sequences, FiniteSets, TLC

\* ------------------------------------------------------------------ bounds
\* largest max_queue_size the constructor is called with
MaxQueueSize == 2
\* largest number of frames the subprocess writes in the pipeline specification
MaxFrames == 3
\* largest number of frames in a stream of the demux specification
MaxDemuxFrames == 2
MaxFaultFrames == 2
\* largest number of start() calls that create threads
MaxStarts == 2
\* most frames in a stream of the one-shot capture, and the largest count asked of it
MaxShotFrames == 2
\* largest number of junk and payload bytes in a stream of the demux specification
MaxExtra == 2
\* the longest text of the character-by-character time inputs
MaxTextLen == 5
\* the most keyword and time pieces joined into one line
MaxPieces == 2
\* the most lines of one frame
MaxLines == 2
\* the largest picture side and the largest denominator of a crop ratio
MaxDim == 5
MaxDen == 4

\* ------------------------------------------------------- program constants
\* stdout.read(4096)
ChunkSize == 4096
\* jpeg_start = b'\xff\xd8', jpeg_end = b'\xff\xd9'
jpeg_start == <<255, 216>>
jpeg_end == <<255, 217>>
\* queue.Queue() : maxsize 0 means "no limit"
result_queue_maxsize == 0

\* the bytes the model distinguishes: the three marker bytes and one other
Byte == {0, 216, 217, 255}
None == 0

\* ------------------------------------------------------ sequence helpers
Min(S) == CHOOSE x \in S : \A y \in S : x <= y

\* bytes.find(pat, from): Python index (0-based) of the first occurrence of
\* pat in buf at or after index from, -1 when there is none
Find(buf, pat, from) ==
    LET hits == {i \in from..(Len(buf) - Len(pat)) :
                    \A j \in 1..Len(pat) : buf[i + j] = pat[j]}
    IN IF hits = {} THEN -1 ELSE Min(hits)

\* buf[a:b] with 0 <= a <= b <= len(buf)
Slice(buf, a, b) == SubSeq(buf, a + 1, b)

\* buf[a:]
SliceFrom(buf, a) == SubSeq(buf, a + 1, Len(buf))

RECURSIVE Concat(_)
Concat(ss) == IF ss = <<>> THEN <<>> ELSE Head(ss) \o Concat(Tail(ss))

\* ------------------------------------------------------ queue.Queue
\* Queue.full(): a maxsize <= 0 queue is never full
QueueFull(q, maxsize) == maxsize > 0 /\ Len(q) >= maxsize

\* Queue.put(x, block=False) on a queue that is not full
QueuePut(q, x) == Append(q, x)

\* (mutation: get returns the newest element and removes the oldest)
QueueGetItem_Newest(q) == q[Len(q)]
\* Queue.get_nowait() / Queue.get(): FIFO, the head is the oldest element
QueueGetItem(q) == Head(q)
\* (mutation: the removal takes the newest element instead of the oldest)
QueueGetRest_DropNewest(q) == SubSeq(q, 1, Len(q) - 1)
QueueGetRest(q) == Tail(q)

\* ------------------------------------------------------ ContentAnalyzer
\* A character is its Unicode code point; a text is a sequence of characters.
Max(S) == CHOOSE x \in S : \A y \in S : y <= x

AsciiDigit == 48..57
FullWidthDigit == 65296..65305
\* \d on a str pattern: the decimal digits of Unicode (of the characters used here)
IsDigit(c) == c \in AsciiDigit \cup FullWidthDigit
\* \s on a str pattern, and what str.strip() removes
IsSpace(c) == c \in {9, 10, 11, 12, 13, 32, 160, 12288}
\* int() of one decimal digit
DigitValue(c) == IF c \in AsciiDigit THEN c - 48 ELSE c - 65296

\* (mutation: no compatibility normalisation)
NFKC_Identity(c) == c
\* unicodedata.normalize('NFKC', ...) on one character: the full-width forms
\* U+FF01..U+FF5E become their ASCII counterparts, the ideographic and the
\* no-break space become a space; the other characters used here are unchanged
NFKC(c) ==
    IF c \in 65281..65374 THEN c - 65248
    ELSE IF c \in {160, 12288} THEN 32
    ELSE c

\* repl: 'O', 'o', U+3007, U+96F6 -> '0'; U+FF1A -> ':'; U+3002, U+FF0E, U+00B7 -> '.'
Repl(c) ==
    CASE c \in {79, 111, 12295, 38646} -> 48
      [] c = 65306 -> 58
      [] c \in {12290, 65294, 183} -> 46
      [] OTHER -> c

\* _normalize_for_time(text)
normalize_for_time(text) == [i \in 1..Len(text) |-> Repl(NFKC(text[i]))]

\* the character class of time_regex between the two fields: ':', U+FF1A, '.', ' '
SepClass == {58, 65306, 46, 32}

NoMatch == [found |-> FALSE, mm |-> 0, ss |-> 0, end |-> 0]

\* (mutation: the pattern without its two look-arounds)
MatchAt_NoGuards(s, i) ==
    LET n == Len(s)
        dig(k) == k >= 1 /\ k <= n /\ IsDigit(s[k])
        d == IF dig(i + 1) /\ i + 2 <= n /\ s[i + 2] \in SepClass THEN 2 ELSE 1
        j == i + d
        k == IF j + 1 <= n /\ IsSpace(s[j + 1]) THEN j + 2 ELSE j + 1
    IN IF /\ dig(i)
          /\ j <= n /\ s[j] \in SepClass
          /\ dig(k) /\ dig(k + 1)
          THEN [found |-> TRUE,
                mm |-> IF d = 2 THEN 10 * DigitValue(s[i]) + DigitValue(s[i + 1])
                                ELSE DigitValue(s[i]),
                ss |-> 10 * DigitValue(s[k]) + DigitValue(s[k + 1]),
                end |-> k + 2]
          ELSE NoMatch

\* time_regex tried at position i (from 1) of s:
\*   (?<!\d)(\d{1,2})[<SepClass>][\s]?(\d{2})(?!\d)
\* \d{1,2} and [\s]? are greedy, and giving back what they took never helps:
\* a second digit is no separator, a white space is no digit.  The match
\* carries int(group 1), int(group 2) and the position after its last character.
MatchAt(s, i) ==
    LET n == Len(s)
        dig(k) == k >= 1 /\ k <= n /\ IsDigit(s[k])
        d == IF dig(i + 1) THEN 2 ELSE 1
        j == i + d
        k == IF j + 1 <= n /\ IsSpace(s[j + 1]) THEN j + 2 ELSE j + 1
    IN IF /\ dig(i) /\ ~dig(i - 1)
          /\ j <= n /\ s[j] \in SepClass
          /\ dig(k) /\ dig(k + 1) /\ ~dig(k + 2)
          THEN [found |-> TRUE,
                mm |-> IF d = 2 THEN 10 * DigitValue(s[i]) + DigitValue(s[i + 1])
                                ELSE DigitValue(s[i]),
                ss |-> 10 * DigitValue(s[k]) + DigitValue(s[k + 1]),
                end |-> k + 2]
          ELSE NoMatch

\* time_regex.finditer(s): the leftmost match from pos on, then on from its end
RECURSIVE FindIter(_, _)
FindIter(s, pos) ==
    LET starts == {i \in pos..Len(s) : MatchAt(s, i).found}
    IN IF starts = {} THEN <<>>
       ELSE <<MatchAt(s, Min(starts))>> \o FindIter(s, MatchAt(s, Min(starts)).end)

\* (mutation: a seconds field of 60 is let through)
Accepts_SixtySeconds(mm, ss) == 0 <= mm /\ mm <= 99 /\ 0 <= ss /\ ss <= 60
\* if 0 <= mm <= 99 and 0 <= ss < 60
Accepts(mm, ss) == 0 <= mm /\ mm <= 99 /\ 0 <= ss /\ ss < 60

\* f"{mm:02d}:{ss:02d}"
FormatTime(mm, ss) ==
    <<48 + (mm \div 10), 48 + (mm % 10), 58, 48 + (ss \div 10), 48 + (ss % 10)>>

\* the entry appended for an accepted match of a line
TimeEntry(line, m) ==
    [text |-> line.text, norm |-> FormatTime(m.mm, m.ss),
     mm |-> m.mm, ss |-> m.ss, sec |-> m.mm * 60 + m.ss]

\* the entries of one line, in match order
LineTimes(line) ==
    LET ms == FindIter(normalize_for_time(line.text), 1)
        ok == SelectSeq(ms, LAMBDA m : Accepts(m.mm, m.ss))
    IN [i \in 1..Len(ok) |-> TimeEntry(line, ok[i])]

\* (mutation: the lines are visited last to first)
extract_all_times_LastLineFirst(lines) ==
    Concat([i \in 1..Len(lines) |-> LineTimes(lines[Len(lines) + 1 - i])])
\* extract_all_times(lines): every line, in line order
extract_all_times(lines) == Concat([i \in 1..Len(lines) |-> LineTimes(lines[i])])

\* max(t['sec'] for t in times)
MaxSec(times) == Max({times[i].sec : i \in 1..Len(times)})

\* (mutation: the threshold is exclusive)
ReachesTwentyMin_Exclusive(sec) == sec > 20 * 60
\* result['max_time_sec'] >= 20 * 60
ReachesTwentyMin(sec) == sec >= 20 * 60

\* has_reached_20_min(lines)
has_reached_20_min(lines) ==
    LET times == extract_all_times(lines)
    IN IF times = <<>> THEN FALSE ELSE MaxSec(times) >= 20 * 60

replay_keywords ==
    <<<<25773>>, <<37325, 25773>>, <<22238, 25773>>, <<24405, 25773>>, <<37325, 25918>>,
      <<82, 69, 80, 76, 65, 89>>, <<82, 69, 82, 85, 78>>, <<31934, 36873>>, <<22238, 30475>>>>
live_keywords ==
    <<<<30452, 25773>>, <<29616, 22330>>, <<76, 73, 86, 69>>, <<23454, 20917>>,
      <<27491, 22312, 25773, 20986>>>>

\* word in text
Contains(text, word) == Find(text, word, 0) # -1
ContainsAny(text, words) == \E i \in 1..Len(words) : Contains(text, words[i])

\* (mutation: the live-context words are not looked at)
is_replay_indicator_IgnoresLive(text) == ContainsAny(text, replay_keywords)
\* is_replay_indicator(text)
is_replay_indicator(text) ==
    IF ContainsAny(text, live_keywords) THEN FALSE
    ELSE ContainsAny(text, replay_keywords)

\* text.strip()
Strip(text) ==
    LET keep == {i \in 1..Len(text) : ~IsSpace(text[i])}
    IN IF keep = {} THEN <<>> ELSE SubSeq(text, Min(keep), Max(keep))

\* no time was found
NoneSec == -1

\* (mutation: the replay pass stops at the first indicator)
analyze_texts_FirstIndicatorOnly(lines) ==
    LET all_times == extract_all_times(lines)
        stripped == [i \in 1..Len(lines) |-> Strip(lines[i].text)]
        every == SelectSeq(stripped, LAMBDA t : t # <<>> /\ is_replay_indicator(t))
        flagged == IF every = <<>> THEN <<>> ELSE <<Head(every)>>
    IN [time_texts |-> all_times,
        replay_indicators |-> [i \in 1..Len(flagged) |-> [text |-> flagged[i]]],
        is_replay |-> flagged # <<>>,
        has_time |-> all_times # <<>>,
        ge_20_min |-> IF all_times = <<>> THEN FALSE ELSE ReachesTwentyMin(MaxSec(all_times)),
        max_time_sec |-> IF all_times = <<>> THEN NoneSec ELSE MaxSec(all_times)]

\* analyze_texts(lines)
analyze_texts(lines) ==
    LET all_times == extract_all_times(lines)
        stripped == [i \in 1..Len(lines) |-> Strip(lines[i].text)]
        flagged == SelectSeq(stripped, LAMBDA t : t # <<>> /\ is_replay_indicator(t))
    IN [time_texts |-> all_times,
        replay_indicators |-> [i \in 1..Len(flagged) |-> [text |-> flagged[i]]],
        is_replay |-> flagged # <<>>,
        has_time |-> all_times # <<>>,
        ge_20_min |-> IF all_times = <<>> THEN FALSE ELSE ReachesTwentyMin(MaxSec(all_times)),
        max_time_sec |-> IF all_times = <<>> THEN NoneSec ELSE MaxSec(all_times)]

\* ------------------------------------------------------ ImageCropper
\* crop_ratio is a Python float, a binary64 number: a significand of
\* DoublePrecision bits, most significant first, and an exponent; its value
\* is the significand read as an integer, times 2^exp
DoublePrecision == 53

\* the binary digits of a natural number, most significant first
RECURSIVE ToBits(_)
ToBits(c) == IF c = 0 THEN <<>> ELSE ToBits(c \div 2) \o <<c % 2>>

\* the natural number with these binary digits
RECURSIVE BitsToInt(_)
BitsToInt(bits) ==
    IF bits = <<>> THEN 0
    ELSE 2 * BitsToInt(SubSeq(bits, 1, Len(bits) - 1)) + bits[Len(bits)]

\* the digits of the next integer; one digit longer when all digits were 1
IncBits(bits) ==
    LET zeros == {i \in 1..Len(bits) : bits[i] = 0}
        last == CHOOSE i \in zeros : \A j \in zeros : j <= i
    IN IF zeros = {}
          THEN <<1>> \o [i \in 1..Len(bits) |-> 0]
          ELSE [i \in 1..Len(bits) |->
                   IF i < last THEN bits[i] ELSE IF i = last THEN 1 ELSE 0]

\* the float with these significand digits after rounding up or not; a carry
\* out of the top digit moves the exponent
RoundedFloat(bits, exp, up) ==
    LET digits == IF up THEN IncBits(bits) ELSE bits
    IN IF Len(digits) > Len(bits)
          THEN [bits |-> SubSeq(digits, 1, Len(bits)), exp |-> exp + 1]
          ELSE [bits |-> digits, exp |-> exp]

\* 2^k
RECURSIVE Pow2(_)
Pow2(k) == IF k = 0 THEN 1 ELSE 2 * Pow2(k - 1)

\* the natural number v < 2^len written with len binary digits
FixedBits(v, len) == [i \in 1..len |-> (v \div Pow2(len - i)) % 2]

\* the arithmetic on digit sequences works on LimbBits digits at a time, so
\* that every intermediate value fits a machine integer for sizes and
\* denominators below 2^17
LimbBits == 14

\* long division: the next count binary digits of rem / d, rem < d, and the
\* remainder left after them
RECURSIVE DivBits(_, _, _)
DivBits(rem, d, count) ==
    IF count <= LimbBits
       THEN LET t == rem * Pow2(count)
            IN [bits |-> FixedBits(t \div d, count), rem |-> t % d]
       ELSE LET first == DivBits(rem, d, count \div 2)
                rest == DivBits(first.rem, d, count - count \div 2)
            IN [bits |-> first.bits \o rest.bits, rem |-> rest.rem]

\* the least k with n * 2^k >= d
RECURSIVE LeadShift(_, _)
LeadShift(n, d) == IF n >= d THEN 0 ELSE 1 + LeadShift(2 * n, d)

\* the float a caller passes for the ratio n/d, 0 < n <= d: the quotient n / d
\* of Python, or the decimal literal of that value; either is the binary64
\* number nearest to n/d, ties to the even significand.  n * 2^k / d lies in
\* [1, 2): its leading digit is 1 and the other digits come from the division
\* of the remainder
float_of(n, d) ==
    LET k == LeadShift(n, d)
        q == DivBits(n * Pow2(k) - d, d, DoublePrecision - 1)
        up == 2 * q.rem > d \/ (2 * q.rem = d /\ q.bits[DoublePrecision - 1] = 1)
    IN RoundedFloat(<<1>> \o q.bits, 0 - k - (DoublePrecision - 1), up)

\* w times the integer with these digits, plus carry: as many low digits of
\* the result as there were, and the carry out of them (the right half first,
\* its carry into the left half)
RECURSIVE MulBits(_, _, _)
MulBits(bits, w, carry) ==
    IF Len(bits) <= LimbBits
       THEN LET t == w * BitsToInt(bits) + carry
            IN [bits |-> FixedBits(t % Pow2(Len(bits)), Len(bits)),
                carry |-> t \div Pow2(Len(bits))]
       ELSE LET h == Len(bits) \div 2
                low == MulBits(SubSeq(bits, h + 1, Len(bits)), w, carry)
                high == MulBits(SubSeq(bits, 1, h), w, low.carry)
            IN [bits |-> high.bits \o low.bits, carry |-> high.carry]

\* the exact product of the integer size and a float, as digits and exponent
ExactProduct(size, f) ==
    LET p == MulBits(f.bits, size, 0)
    IN [bits |-> ToBits(p.carry) \o p.bits, exp |-> f.exp]

\* size * self.crop_ratio: the int is converted to float (exactly, for an
\* image size) and the product is rounded to the nearest float, ties to even
float_mul(size, f) ==
    LET p == ExactProduct(size, f)
        extra == Len(p.bits) - DoublePrecision
        kept == SubSeq(p.bits, 1, DoublePrecision)
        dropped == SubSeq(p.bits, DoublePrecision + 1, Len(p.bits))
        more == \E i \in 2..Len(dropped) : dropped[i] = 1
        up == /\ extra > 0
              /\ dropped[1] = 1
              /\ (more \/ kept[DoublePrecision] = 1)
    IN RoundedFloat(kept, p.exp + extra, up)

\* the integer part of a number given by digits and exponent, the number
\* being >= 0 and below 2^31
IntegerPart(x) ==
    IF x.exp >= 0 THEN BitsToInt(x.bits) * Pow2(x.exp)
    ELSE IF Len(x.bits) + x.exp <= 0 THEN 0
    ELSE BitsToInt(SubSeq(x.bits, 1, Len(x.bits) + x.exp))

\* self.crop_ratio: the float the cropper was constructed with, named by the
\* ratio num/den it is the nearest float to
FloatRatio(ratio) == float_of(ratio.num, ratio.den)

\* int(size * self.crop_ratio): int() truncates towards zero
CropLength(size, ratio) == IntegerPart(float_mul(size, FloatRatio(ratio)))

\* (mutation: the rectangle is taken from the left edge)
get_crop_coordinates_FromLeft(w, h, ratio) ==
    <<0, 0, CropLength(w, ratio), CropLength(h, ratio)>>
\* get_crop_coordinates(width, height): (left, top, right, bottom)
get_crop_coordinates(w, h, ratio) ==
    LET crop_width == CropLength(w, ratio)
        crop_height == CropLength(h, ratio)
    IN <<w - crop_width, 0, w, crop_height>>

\* crop_top_right(image): the rectangle handed to image.crop and the size of
\* the picture it returns
crop_top_right(w, h, ratio) ==
    LET crop_width == CropLength(w, ratio)
        crop_height == CropLength(h, ratio)
        left == w - crop_width
        top == 0
        right == w
        bottom == crop_height
    IN [box |-> <<left, top, right, bottom>>, size |-> <<right - left, bottom - top>>]

\* ------------------------------------------------------ FFmpeg commands
\* ','.join(parts)
RECURSIVE Join(_)
Join(parts) ==
    IF Len(parts) = 1 THEN parts[1] ELSE parts[1] \o "," \o Join(Tail(parts))

\* for key, value in flags.items(): cmd.extend([f'-{key}', str(value)])
RECURSIVE FlagArgs(_)
FlagArgs(flags) ==
    IF flags = <<>> THEN <<>>
    ELSE <<"-" \o flags[1][1], flags[1][2]>> \o FlagArgs(Tail(flags))

\* (mutation: the input flags are placed after the input source)
build_command_FlagsAfterInput(c) ==
    <<c.executable>>
    \o (IF c.hide_banner THEN <<"-hide_banner">> ELSE <<>>)
    \o <<"-loglevel", c.log_level>>
    \o (IF c.input_source # "" THEN <<"-i", c.input_source>> ELSE <<>>)
    \o FlagArgs(c.input_flags)
    \o (IF c.video_filters # <<>> THEN <<"-vf", Join(c.video_filters)>> ELSE <<>>)
    \o FlagArgs(c.output_flags)
    \o (IF c.output_format # "" THEN <<"-f", c.output_format>> ELSE <<>>)
    \o <<c.output_target>>
\* FFmpegCommand.build_command()
build_command(c) ==
    <<c.executable>>
    \o (IF c.hide_banner THEN <<"-hide_banner">> ELSE <<>>)
    \o <<"-loglevel", c.log_level>>
    \o FlagArgs(c.input_flags)
    \o (IF c.input_source # "" THEN <<"-i", c.input_source>> ELSE <<>>)
    \o (IF c.video_filters # <<>> THEN <<"-vf", Join(c.video_filters)>> ELSE <<>>)
    \o FlagArgs(c.output_flags)
    \o (IF c.output_format # "" THEN <<"-f", c.output_format>> ELSE <<>>)
    \o <<c.output_target>>

\* the FFmpegCommand of the one-shot live capture once its build_command() has
\* filled it in: default fields, fps 1.0, width 1280, two frames
LiveCaptureCommand(url) ==
    [executable |-> "ffmpeg", hide_banner |-> TRUE, log_level |-> "error",
     input_flags |-> <<<<"fflags", "nobuffer">>, <<"reconnect", "1">>>>,
     input_source |-> url,
     video_filters |-> <<"fps=1.0", "scale=" \o ToString(1280) \o ":-2">>,
     output_flags |-> <<<<"vcodec", "mjpeg">>, <<"vframes", ToString(2)>>>>,
     output_format |-> "image2pipe",
     output_target |-> "-"]

\* f'fps={self.fps},scale={self.scale_width}:-2'
FilterChain(fps, scale_width) ==
    "fps=" \o ToString(fps) \o ",scale=" \o ToString(scale_width) \o ":-2"

\* FFmpegStreamOCR._build_ffmpeg_command()
build_ffmpeg_command(st) ==
    <<"ffmpeg", "-hide_banner", "-loglevel", "error",
      "-fflags", "nobuffer",
      "-reconnect", "1",
      "-i", st.stream_url,
      "-vf", FilterChain(st.fps, st.scale_width),
      "-f", "image2pipe",
      "-vcodec", "mjpeg",
      "-">>

VARIABLES
    \* FFmpegStreamOCR fields
    running, ffmpeg_process, capture_thread, process_thread,
    frame_queue, result_queue, max_queue_size,
    \* the decode subprocess and its stdout pipe
    procState, honoursTerm, termSent, script, pipe, stdoutClosed,
    \* capture thread: position and locals
    capPc, buffer, frame_count, image,
    \* analysis thread: position and locals
    anaPc, aImage,
    \* the caller's thread: position inside start()/stop()/accessors
    ctlPc, lastCall, stopOutcome, lastGot, results,
    \* history of what happened (not program state)
    stream, emitted, admitted, overflows, evicted, splitMarker, dequeued, resultsPut,
    putSeq, capRaised, eofSeen,
    \* a processor started more than once: how many times threads were created,
    \* the position of each start's two threads, the state of the subprocess
    \* each capture thread launched, and (history) which thread terminated or
    \* cleared which subprocess
    starts, capPcs, anaPcs, procStates, handleOps,
    \* the one-shot capture (capture_frames of ffmpeg_*.py): the generator's
    \* position, self.frame_count, self._process and (history) what it yielded;
    \* its locals buffer and frame_count and its subprocess are the variables
    \* of those names above
    shotPc, self_frame_count, self_process, yielded,
    \* ContentAnalyzer: the recognised lines and what the analyser returned
    ocr_lines, analysis, reached,
    \* ImageCropper: the picture's size, the ratio, and what the two methods returned
    width, height, crop_ratio, cropped, coords,
    \* command building: an FFmpegCommand and its list, the processor's
    \* stream settings and its decode command
    command, cmd, settings, ffmpeg_cmd

procVars == <<procState, honoursTerm, termSent, script, pipe>>
capVars == <<capPc, buffer, frame_count, image>>
anaVars == <<anaPc, aImage>>
ctlVars == <<ctlPc, lastCall, stopOutcome, lastGot, results>>
capHist == <<emitted, admitted, overflows, evicted, splitMarker>>
anaHist == <<dequeued, resultsPut, putSeq>>
textVars == <<ocr_lines, analysis, reached>>
cropVars == <<width, height, crop_ratio, cropped, coords>>
cmdVars == <<command, cmd, settings, ffmpeg_cmd>>
\* what the pipeline never touches
pureVars == <<textVars, cropVars, cmdVars>>
\* the subprocess closing its stdout before it exits, an exception in
\* _capture_frames, and (history) a read that met end of file while poll()
\* was None: changed only by the steps that model them
faultVars == <<stdoutClosed, capRaised, eofSeen>>
\* the threads and subprocesses of a processor that is started again
shotVars == <<shotPc, self_frame_count, self_process, yielded>>
genVars == <<starts, capPcs, anaPcs, procStates, handleOps, shotVars>>
\* the processor's fields, threads, subprocess and history
pipeVars == <<running, ffmpeg_process, capture_thread, process_thread,
              frame_queue, result_queue, max_queue_size,
              procVars, capVars, anaVars, ctlVars, stream, capHist, anaHist,
              faultVars, genVars>>
vars == <<running, ffmpeg_process, capture_thread, process_thread,
          frame_queue, result_queue, max_queue_size,
          procState, honoursTerm, termSent, script, pipe,
          capPc, buffer, frame_count, image,
          anaPc, aImage,
          ctlPc, lastCall, stopOutcome, lastGot, results,
          stream, emitted, admitted, overflows, evicted, splitMarker, dequeued, resultsPut,
          putSeq, stdoutClosed, capRaised, eofSeen,
          starts, capPcs, anaPcs, procStates, handleOps,
          shotPc, self_frame_count, self_process, yielded,
          ocr_lines, analysis, reached,
          width, height, crop_ratio, cropped, coords,
          command, cmd, settings, ffmpeg_cmd>>

\* ------------------------------------------------------ input streams
\* one marker-delimited frame
Frame(payload) == jpeg_start \o payload \o jpeg_end

BytesUpTo(n) == UNION {[1..k -> Byte] : k \in 0..n}

\* a frame is well formed when its only start marker is its first two bytes
\* and its only end marker is its last two bytes
WellFormedPayload(p) ==
    /\ Find(Frame(p), jpeg_start, 1) = -1
    /\ Find(Frame(p), jpeg_end, 0) = Len(p) + 2

\* junk is what precedes the first start marker: it contains none
IsJunk(j) == Find(j, jpeg_start, 0) = -1

\* a stream: junk, then the frames back to back
StreamBytes(st) == st.junk \o Concat([i \in 1..Len(st.payloads) |-> Frame(st.payloads[i])])
StreamFrames(st) == [i \in 1..Len(st.payloads) |-> Frame(st.payloads[i])]

\* the streams of the pipeline specification: n minimal frames, no junk
PipelineStreams ==
    {[junk |-> <<>>, payloads |-> [i \in 1..n |-> <<>>]] : n \in 0..MaxFrames}

\* the streams of the demux specification: up to MaxExtra bytes x, cut into
\* the junk and the payloads of up to MaxDemuxFrames well-formed frames
CutsOf(x) ==
    {c \in UNION {[1..n -> 0..Len(x)] : n \in 0..MaxDemuxFrames} :
        \A i \in 1..(Len(c) - 1) : c[i] <= c[i + 1]}
StreamOfCuts(x, c) ==
    [junk |-> IF Len(c) = 0 THEN x ELSE Slice(x, 0, c[1]),
     payloads |-> [i \in 1..Len(c) |->
                     Slice(x, c[i], IF i = Len(c) THEN Len(x) ELSE c[i + 1])]]
DemuxStreams ==
    {st \in UNION {{StreamOfCuts(x, c) : c \in CutsOf(x)} : x \in BytesUpTo(MaxExtra)} :
        /\ IsJunk(st.junk)
        /\ \A i \in 1..Len(st.payloads) : WellFormedPayload(st.payloads[i])}

TypeOK ==
    /\ running \in BOOLEAN
    /\ ffmpeg_process \in {None} \cup 1..MaxStarts
    /\ capture_thread \in {None} \cup 1..MaxStarts
    /\ process_thread \in {None} \cup 1..MaxStarts
    /\ max_queue_size \in 1..MaxQueueSize
    /\ procState \in {"none", "alive", "exited"}
    /\ stdoutClosed \in BOOLEAN
    /\ capRaised \in BOOLEAN
    /\ eofSeen \in BOOLEAN
    /\ honoursTerm \in BOOLEAN
    /\ termSent \in BOOLEAN
    /\ capPc \in {"none", "launch", "loop", "read", "scan", "put", "evict",
                  "reput", "finally", "clear", "done"}
    /\ anaPc \in {"none", "loop", "get", "ocr", "put_result", "done"}
    /\ ctlPc \in {"idle", "stop_check", "stop_terminate", "stop_wait", "stop_kill",
                  "stop_join_capture", "stop_join_process", "drain"}
    /\ stopOutcome \in {"none", "returned", "raised"}
    /\ starts \in 0..MaxStarts
    /\ shotPc \in {"none", "created", "loop", "read", "scan", "yielded", "closed",
                   "term_check", "term_wait", "term_kill", "term_clear", "done"}
    /\ self_process \in {None, 1}

\* ------------------------------------------------------ initial states
\* self.frame_count = 2 in the constructor of the one-shot capture
DefaultFrameCount == 2

\* no thread and no subprocess of any start exists, and no one-shot capture
\* has been asked for
GenIdle ==
    /\ starts = 0
    /\ capPcs = <<>>
    /\ anaPcs = <<>>
    /\ procStates = <<>>
    /\ handleOps = {}
    /\ shotPc = "none"
    /\ self_frame_count = DefaultFrameCount
    /\ self_process = None
    /\ yielded = <<>>

\* FFmpegStreamOCR.__init__: empty queues, not running, no process, no threads.
\* The subprocess's behaviour (what it will write, whether it honours
\* SIGTERM) is fixed here; it acts once _capture_frames has launched it.
InitFields(st, qsize, honours) ==
    /\ running = FALSE
    /\ ffmpeg_process = None
    /\ capture_thread = None
    /\ process_thread = None
    /\ frame_queue = <<>>
    /\ result_queue = <<>>
    /\ max_queue_size = qsize
    /\ procState = "none"
    /\ honoursTerm = honours
    /\ termSent = FALSE
    /\ script = StreamBytes(st)
    /\ pipe = <<>>
    /\ capPc = "none"
    /\ buffer = <<>>
    /\ frame_count = 0
    /\ image = None
    /\ anaPc = "none"
    /\ aImage = None
    /\ ctlPc = "idle"
    /\ lastCall = "init"
    /\ stopOutcome = "none"
    /\ lastGot = None
    /\ results = <<>>
    /\ stream = st
    /\ stdoutClosed = FALSE
    /\ capRaised = FALSE
    /\ eofSeen = FALSE
    /\ GenIdle
    /\ emitted = <<>>
    /\ admitted = 0
    /\ overflows = 0
    /\ evicted = 0
    /\ splitMarker = FALSE
    /\ dequeued = <<>>
    /\ resultsPut = 0
    /\ putSeq = <<>>

\* no text has been analysed
TextIdle == ocr_lines = <<>> /\ analysis = <<>> /\ reached = <<>>

\* ImageCropper(): the default ratio 0.25, nothing cropped
CropIdle ==
    /\ width = 0 /\ height = 0
    /\ crop_ratio = [num |-> 1, den |-> 4]
    /\ cropped = <<>> /\ coords = <<>>

\* FFmpegCommand(): the dataclass defaults after __post_init__
DefaultCommand ==
    [executable |-> "ffmpeg", hide_banner |-> TRUE, log_level |-> "error",
     input_flags |-> <<>>, input_source |-> "", video_filters |-> <<>>,
     output_flags |-> <<>>, output_format |-> "", output_target |-> "-"]

\* FFmpegStreamOCR(stream_url): fps 1, scale_width 1280
DefaultSettings(url) == [stream_url |-> url, fps |-> 1, scale_width |-> 1280]

\* no command has been built
CmdIdle ==
    /\ command = DefaultCommand /\ cmd = <<>>
    /\ settings = DefaultSettings("rtmp://host/live") /\ ffmpeg_cmd = <<>>

PureIdle == TextIdle /\ CropIdle /\ CmdIdle

\* a processor that is never started
PipelineIdle == InitFields([junk |-> <<>>, payloads |-> <<>>], 1, TRUE)

Init ==
    /\ \E st \in PipelineStreams, qsize \in 1..MaxQueueSize, honours \in BOOLEAN :
          InitFields(st, qsize, honours)
    /\ PureIdle

\* ------------------------------------------------------ the subprocess
\* the subprocess writes the next n bytes of its output to stdout
ProcWrite(n) ==
    /\ procState = "alive"
    /\ n \in 1..Len(script)
    /\ pipe' = pipe \o SubSeq(script, 1, n)
    /\ script' = SliceFrom(script, n)
    /\ UNCHANGED <<running, ffmpeg_process, capture_thread, process_thread,
                   frame_queue, result_queue, max_queue_size,
                   procState, honoursTerm, termSent,
                   capVars, anaVars, ctlVars, stream, capHist, anaHist, pureVars, genVars, faultVars>>

\* ffmpeg writes one encoded picture at a time
ProcWriteFrame ==
    /\ script # <<>>
    /\ ProcWrite(Find(script, jpeg_end, 0) + 2)

\* any split of the output into writes
ProcWriteBytes == \E n \in 1..Len(script) : ProcWrite(n)

\* the subprocess has written everything: it closes stdout and exits
ProcFinish ==
    /\ procState = "alive"
    /\ script = <<>>
    /\ procState' = "exited"
    /\ UNCHANGED <<running, ffmpeg_process, capture_thread, process_thread,
                   frame_queue, result_queue, max_queue_size,
                   honoursTerm, termSent, script, pipe,
                   capVars, anaVars, ctlVars, stream, capHist, anaHist, pureVars, genVars, faultVars>>

\* the subprocess closes its stdout some time before the parent can see it
\* gone: read() returns b'' from then on while poll() is still None
ProcCloseStdout ==
    /\ procState = "alive"
    /\ script = <<>>
    /\ ~stdoutClosed
    /\ stdoutClosed' = TRUE
    /\ UNCHANGED <<running, ffmpeg_process, capture_thread, process_thread,
                   frame_queue, result_queue, max_queue_size,
                   procVars, capVars, anaVars, ctlVars, stream, capHist, anaHist,
                   pureVars, genVars, capRaised, eofSeen>>

\* a subprocess that honours SIGTERM exits some time after receiving it
ProcTerminated ==
    /\ procState = "alive"
    /\ termSent
    /\ honoursTerm
    /\ procState' = "exited"
    /\ UNCHANGED <<running, ffmpeg_process, capture_thread, process_thread,
                   frame_queue, result_queue, max_queue_size,
                   honoursTerm, termSent, script, pipe,
                   capVars, anaVars, ctlVars, stream, capHist, anaHist, pureVars, genVars, faultVars>>

\* Popen.terminate(): SIGTERM to a live process, nothing for one that has exited
SigTerm == termSent \/ procState = "alive"

\* ------------------------------------------------------ capture thread
\* what no step of the capture thread touches
capOthers == <<running, capture_thread, process_thread, result_queue, max_queue_size,
               honoursTerm, script, anaVars, ctlVars, stream, anaHist, pureVars, genVars>>
capFrame == <<capOthers, faultVars>>

\* subprocess.Popen(cmd, stdout=PIPE, ...): the handle is stored, the process runs
CaptureLaunch ==
    /\ capPc = "launch"
    /\ ffmpeg_process' = 1
    /\ procState' = "alive"
    /\ buffer' = <<>>
    /\ frame_count' = 0
    /\ capPc' = "loop"
    /\ UNCHANGED <<capFrame, frame_queue, termSent, pipe, image, capHist>>

\* Popen (or _build_ffmpeg_command) raises: "except Exception" logs it and the
\* finally block runs with no handle stored
CaptureLaunchFails ==
    /\ capPc = "launch"
    /\ capRaised' = TRUE
    /\ capPc' = "finally"
    /\ UNCHANGED <<capOthers, stdoutClosed, eofSeen, ffmpeg_process, frame_queue, procState,
                   termSent, pipe, buffer, frame_count, image, capHist>>

\* (mutation: the loop test looks at the run flag only)
CaptureLoopCheck_IgnoresExit ==
    /\ capPc = "loop"
    /\ capPc' = IF running THEN "read" ELSE "finally"
    /\ UNCHANGED <<capFrame, ffmpeg_process, frame_queue, procState, termSent, pipe,
                   buffer, frame_count, image, capHist>>

\* while self.running and self.ffmpeg_process.poll() is None
CaptureLoopCheck ==
    /\ capPc = "loop"
    /\ capPc' = IF running /\ procState = "alive" THEN "read" ELSE "finally"
    /\ UNCHANGED <<capFrame, ffmpeg_process, frame_queue, procState, termSent, pipe,
                   buffer, frame_count, image, capHist>>

\* history: the chunk just read ends with the first byte of a marker whose
\* second byte is the next byte of the stream
EndsInsideMarker(chunk, rest) ==
    /\ chunk # <<>>
    /\ rest # <<>>
    /\ chunk[Len(chunk)] = jpeg_start[1]
    /\ rest[1] \in {jpeg_start[2], jpeg_end[2]}

\* chunk = stdout.read(4096) on an unbuffered pipe: blocks while the pipe is
\* empty and its write end is open, returns what is there (at most 4096
\* bytes), or b'' at end of file; an empty chunk goes back to the loop test
CaptureRead ==
    /\ capPc = "read"
    /\ pipe # <<>> \/ procState = "exited" \/ stdoutClosed
    /\ LET n == IF Len(pipe) < ChunkSize THEN Len(pipe) ELSE ChunkSize
           chunk == SubSeq(pipe, 1, n)
       IN /\ pipe' = SliceFrom(pipe, n)
          /\ IF chunk = <<>>
                THEN /\ capPc' = "loop"
                     /\ buffer' = buffer
                ELSE /\ capPc' = "scan"
                     /\ buffer' = buffer \o chunk
          /\ splitMarker' = (splitMarker \/ EndsInsideMarker(chunk, SliceFrom(pipe, n) \o script))
          /\ eofSeen' = (eofSeen \/ (chunk = <<>> /\ procState = "alive"))
    /\ UNCHANGED <<capOthers, stdoutClosed, capRaised, ffmpeg_process, frame_queue, procState, termSent,
                   frame_count, image, emitted, admitted, overflows, evicted>>

\* stdout.read raises: the exception leaves the while loop, is logged by the
\* outer "except Exception", and the finally block runs
CaptureReadRaises ==
    /\ capPc = "read"
    /\ capRaised' = TRUE
    /\ capPc' = "finally"
    /\ UNCHANGED <<capOthers, stdoutClosed, eofSeen, ffmpeg_process, frame_queue, procState,
                   termSent, pipe, buffer, frame_count, image, capHist>>

\* one pass of the inner "while True": the indices of the next complete frame
start_idx(buf) == Find(buf, jpeg_start, 0)
\* (mutation: the end marker is searched from the start of the buffer)
end_idx_NoOffset(buf) == Find(buf, jpeg_end, 0)
end_idx(buf) == Find(buf, jpeg_end, start_idx(buf) + 2)
HasFrame(buf) == start_idx(buf) # -1 /\ end_idx(buf) # -1
\* jpeg_data = buffer[start_idx:end_idx + 2]
jpeg_data(buf) == Slice(buf, start_idx(buf), end_idx(buf) + 2)
\* (mutation: the end marker stays in the buffer)
BufferAfterFrame_KeepsEndMarker(buf) == SliceFrom(buf, end_idx(buf))
\* buffer = buffer[end_idx + 2:]
BufferAfterFrame(buf) == SliceFrom(buf, end_idx(buf) + 2)

\* (mutation: the break throws the buffer away)
CaptureScanBreak_DropsBuffer ==
    /\ capPc = "scan"
    /\ ~HasFrame(buffer)
    /\ capPc' = "loop"
    /\ buffer' = <<>>
    /\ UNCHANGED <<capFrame, ffmpeg_process, frame_queue, procState, termSent, pipe,
                   frame_count, image, capHist>>

\* no start marker, or no end marker after it: break, back to the loop test
CaptureScanBreak ==
    /\ capPc = "scan"
    /\ ~HasFrame(buffer)
    /\ capPc' = "loop"
    /\ UNCHANGED <<capFrame, ffmpeg_process, frame_queue, procState, termSent, pipe,
                   buffer, frame_count, image, capHist>>

\* a complete frame: cut it out of the buffer, decode it, count it
CaptureScanFrame ==
    /\ capPc = "scan"
    /\ HasFrame(buffer)
    /\ emitted' = Append(emitted, jpeg_data(buffer))
    /\ buffer' = BufferAfterFrame(buffer)
    /\ frame_count' = frame_count + 1
    /\ image' = frame_count + 1
    /\ capPc' = "put"
    /\ UNCHANGED <<capFrame, ffmpeg_process, frame_queue, procState, termSent, pipe,
                   admitted, overflows, evicted, splitMarker>>

\* (mutation: a frame that does not decode ends the thread)
CaptureDecodeFails_EndsThread ==
    /\ capPc = "scan"
    /\ HasFrame(buffer)
    /\ emitted' = Append(emitted, jpeg_data(buffer))
    /\ buffer' = BufferAfterFrame(buffer)
    /\ capPc' = "finally"
    /\ UNCHANGED <<capFrame, ffmpeg_process, frame_queue, procState, termSent, pipe,
                   frame_count, image, admitted, overflows, evicted, splitMarker>>

\* a complete frame that Image.open rejects: it is already cut out of the
\* buffer; the frame's "except Exception" logs it and "continue" goes on with
\* the inner scan; frame_count is not incremented and nothing is queued
CaptureDecodeFails ==
    /\ capPc = "scan"
    /\ HasFrame(buffer)
    /\ emitted' = Append(emitted, jpeg_data(buffer))
    /\ buffer' = BufferAfterFrame(buffer)
    /\ capPc' = "scan"
    /\ UNCHANGED <<capFrame, ffmpeg_process, frame_queue, procState, termSent, pipe,
                   frame_count, image, admitted, overflows, evicted, splitMarker>>

\* self.frame_queue.put(image, block=False); queue.Full leads to the eviction
CapturePut ==
    /\ capPc = "put"
    /\ IF QueueFull(frame_queue, max_queue_size)
          THEN /\ overflows' = overflows + 1
               /\ capPc' = "evict"
               /\ UNCHANGED <<frame_queue, admitted>>
          ELSE /\ frame_queue' = QueuePut(frame_queue, image)
               /\ admitted' = admitted + 1
               /\ capPc' = "scan"
               /\ UNCHANGED overflows
    /\ UNCHANGED <<capFrame, ffmpeg_process, procState, termSent, pipe,
                   buffer, frame_count, image, emitted, evicted, splitMarker>>

\* self.frame_queue.get_nowait(); queue.Empty is passed over and the frame
\* in hand is forgotten
CaptureEvict ==
    /\ capPc = "evict"
    /\ IF frame_queue = <<>>
          THEN /\ capPc' = "scan"
               /\ UNCHANGED <<frame_queue, evicted>>
          ELSE /\ frame_queue' = QueueGetRest(frame_queue)
               /\ evicted' = evicted + 1
               /\ capPc' = "reput"
    /\ UNCHANGED <<capFrame, ffmpeg_process, procState, termSent, pipe,
                   buffer, frame_count, image, emitted, admitted, overflows, splitMarker>>

\* the second self.frame_queue.put(image, block=False); a queue.Full here is
\* caught by the frame's "except Exception" and the scan goes on
CaptureReput ==
    /\ capPc = "reput"
    /\ IF QueueFull(frame_queue, max_queue_size)
          THEN UNCHANGED <<frame_queue, admitted>>
          ELSE /\ frame_queue' = QueuePut(frame_queue, image)
               /\ admitted' = admitted + 1
    /\ capPc' = "scan"
    /\ UNCHANGED <<capFrame, ffmpeg_process, procState, termSent, pipe,
                   buffer, frame_count, image, emitted, overflows, evicted, splitMarker>>

\* (mutation: the finally block also clears the run flag)
CaptureFinally_ClearsFlag ==
    /\ capPc = "finally"
    /\ running' = FALSE
    /\ IF ffmpeg_process # None
          THEN /\ termSent' = SigTerm
               /\ capPc' = "clear"
          ELSE /\ termSent' = termSent
               /\ capPc' = "done"
    /\ UNCHANGED <<capture_thread, process_thread, result_queue, max_queue_size,
                   honoursTerm, script, anaVars, ctlVars, stream, anaHist, pureVars, genVars,
                   faultVars, ffmpeg_process, frame_queue, procState, pipe,
                   buffer, frame_count, image, capHist>>

\* finally: if self.ffmpeg_process: self.ffmpeg_process.terminate()
CaptureFinally ==
    /\ capPc = "finally"
    /\ IF ffmpeg_process # None
          THEN /\ termSent' = SigTerm
               /\ capPc' = "clear"
          ELSE /\ termSent' = termSent
               /\ capPc' = "done"
    /\ UNCHANGED <<capFrame, ffmpeg_process, frame_queue, procState, pipe,
                   buffer, frame_count, image, capHist>>

\* self.ffmpeg_process = None, and the thread ends
CaptureClear ==
    /\ capPc = "clear"
    /\ ffmpeg_process' = None
    /\ capPc' = "done"
    /\ UNCHANGED <<capFrame, frame_queue, procState, termSent, pipe,
                   buffer, frame_count, image, capHist>>

CaptureInsert == CapturePut \/ CaptureEvict \/ CaptureReput

CaptureStream ==
    CaptureLoopCheck \/ CaptureRead \/ CaptureScanBreak \/ CaptureScanFrame \/ CaptureInsert

CaptureStep == CaptureLaunch \/ CaptureStream \/ CaptureFinally \/ CaptureClear

\* the exceptions _capture_frames catches
CaptureFault == CaptureLaunchFails \/ CaptureReadRaises \/ CaptureDecodeFails

\* ------------------------------------------------------ analysis thread
\* what no step of the analysis thread touches
anaFrame == <<running, ffmpeg_process, capture_thread, process_thread, max_queue_size,
              procVars, capVars, ctlVars, stream, capHist, pureVars, genVars, faultVars>>

\* while self.running
ProcessLoopCheck ==
    /\ anaPc = "loop"
    /\ anaPc' = IF running THEN "get" ELSE "done"
    /\ UNCHANGED <<anaFrame, frame_queue, result_queue, aImage, anaHist>>

\* (mutation: queue.Empty waits again without looking at the run flag)
ProcessGet_RetriesOnEmpty ==
    /\ anaPc = "get"
    /\ IF frame_queue # <<>>
          THEN /\ aImage' = QueueGetItem(frame_queue)
               /\ frame_queue' = QueueGetRest(frame_queue)
               /\ dequeued' = Append(dequeued, QueueGetItem(frame_queue))
               /\ anaPc' = "ocr"
          ELSE /\ anaPc' = "get"
               /\ UNCHANGED <<aImage, frame_queue, dequeued>>
    /\ UNCHANGED <<anaFrame, result_queue, resultsPut, putSeq>>

\* image = self.frame_queue.get(timeout=1.0): the oldest frame, or queue.Empty
\* after a second without one, which leads back to the loop test
ProcessGet ==
    /\ anaPc = "get"
    /\ IF frame_queue # <<>>
          THEN /\ aImage' = QueueGetItem(frame_queue)
               /\ frame_queue' = QueueGetRest(frame_queue)
               /\ dequeued' = Append(dequeued, QueueGetItem(frame_queue))
               /\ anaPc' = "ocr"
          ELSE /\ anaPc' = "loop"
               /\ UNCHANGED <<aImage, frame_queue, dequeued>>
    /\ UNCHANGED <<anaFrame, result_queue, resultsPut, putSeq>>

\* crop, convert, self.ocr_engine.infer(...), analyze_texts, build the result;
\* the OCR call may take arbitrarily long
ProcessAnalyse ==
    /\ anaPc = "ocr"
    /\ anaPc' = "put_result"
    /\ UNCHANGED <<anaFrame, frame_queue, result_queue, aImage, anaHist>>

\* (mutation: the failure of one frame ends the thread)
ProcessAnalyseFails_Terminates ==
    /\ anaPc = "ocr"
    /\ anaPc' = "done"
    /\ UNCHANGED <<anaFrame, frame_queue, result_queue, aImage, anaHist>>

\* the frame cannot be analysed: the pixel array has an unsupported number of
\* channels (a warning, then "continue"), or the crop, the conversion, the OCR
\* call or analyze_texts raises (caught by "except Exception" inside the
\* loop, logged); either way no result is built and the loop test comes next
ProcessAnalyseFails ==
    /\ anaPc = "ocr"
    /\ anaPc' = "loop"
    /\ UNCHANGED <<anaFrame, frame_queue, result_queue, aImage, anaHist>>

\* (mutation: after the put the thread waits for the next frame without
\* testing the run flag)
ProcessPutResult_SkipsLoopTest ==
    /\ anaPc = "put_result"
    /\ IF QueueFull(result_queue, result_queue_maxsize)
          THEN IF result_queue = <<>>
                  THEN UNCHANGED <<result_queue, resultsPut, putSeq>>
                  ELSE /\ result_queue' = QueuePut(QueueGetRest(result_queue), aImage)
                       /\ resultsPut' = resultsPut + 1
                       /\ putSeq' = Append(putSeq, aImage)
          ELSE /\ result_queue' = QueuePut(result_queue, aImage)
               /\ resultsPut' = resultsPut + 1
               /\ putSeq' = Append(putSeq, aImage)
    /\ anaPc' = "get"
    /\ UNCHANGED <<anaFrame, frame_queue, aImage, dequeued>>

\* self.result_queue.put(result, block=False), and on queue.Full
\* get_nowait() then put again; back to the loop test
ProcessPutResult ==
    /\ anaPc = "put_result"
    /\ IF QueueFull(result_queue, result_queue_maxsize)
          THEN IF result_queue = <<>>
                  THEN UNCHANGED <<result_queue, resultsPut, putSeq>>
                  ELSE /\ result_queue' = QueuePut(QueueGetRest(result_queue), aImage)
                       /\ resultsPut' = resultsPut + 1
                       /\ putSeq' = Append(putSeq, aImage)
          ELSE /\ result_queue' = QueuePut(result_queue, aImage)
               /\ resultsPut' = resultsPut + 1
               /\ putSeq' = Append(putSeq, aImage)
    /\ anaPc' = "loop"
    /\ UNCHANGED <<anaFrame, frame_queue, aImage, dequeued>>

ProcessStep ==
    ProcessLoopCheck \/ ProcessGet \/ ProcessAnalyse \/ ProcessAnalyseFails \/ ProcessPutResult

\* ------------------------------------------------------ controller
\* what no controller operation touches
ctlFrame == <<max_queue_size, honoursTerm, script, pipe, buffer, frame_count, image,
              aImage, stream, capHist, anaHist, frame_queue, pureVars, genVars, faultVars>>

\* (mutation: start() misses the early return and starts threads again)
start_running_Respawn ==
    /\ ctlPc = "idle"
    /\ running
    /\ capture_thread' = 1
    /\ capPc' = "launch"
    /\ process_thread' = 1
    /\ anaPc' = "loop"
    /\ lastCall' = "start_noop"
    /\ UNCHANGED <<ctlFrame, running, ffmpeg_process, result_queue, procState, termSent,
                   ctlPc, stopOutcome, lastGot, results>>

\* start() while self.running: a warning, and return
start_running ==
    /\ ctlPc = "idle"
    /\ running
    /\ lastCall' = "start_noop"
    /\ UNCHANGED <<ctlFrame, running, ffmpeg_process, capture_thread, process_thread,
                   result_queue, procState, termSent, capPc, anaPc,
                   ctlPc, stopOutcome, lastGot, results>>

\* start() otherwise: set the flag, create and start the two threads.
\* The model follows one processor through its first start.
start_threads ==
    /\ ctlPc = "idle"
    /\ ~running
    /\ capture_thread = None
    /\ running' = TRUE
    /\ capture_thread' = 1
    /\ capPc' = "launch"
    /\ process_thread' = 1
    /\ anaPc' = "loop"
    /\ lastCall' = "start"
    /\ UNCHANGED <<ctlFrame, ffmpeg_process, result_queue, procState, termSent,
                   ctlPc, stopOutcome, lastGot, results>>

start == start_running \/ start_threads

\* stop(): self.running = False
StopBegin ==
    /\ ctlPc = "idle"
    /\ running' = FALSE
    /\ ctlPc' = "stop_check"
    /\ stopOutcome' = "none"
    /\ lastCall' = "stop"
    /\ UNCHANGED <<ctlFrame, ffmpeg_process, capture_thread, process_thread,
                   result_queue, procState, termSent, capPc, anaPc, lastGot, results>>

stopFrame == <<ctlFrame, running, ffmpeg_process, capture_thread, process_thread,
               result_queue, capPc, anaPc, lastCall, lastGot, results>>

\* an attribute access on None: AttributeError leaves stop()
StopRaises ==
    /\ ctlPc' = "idle"
    /\ stopOutcome' = "raised"

\* if self.ffmpeg_process:
StopCheck ==
    /\ ctlPc = "stop_check"
    /\ ctlPc' = IF ffmpeg_process # None THEN "stop_terminate" ELSE "stop_join_capture"
    /\ UNCHANGED <<stopFrame, procState, termSent, stopOutcome>>

\* self.ffmpeg_process.terminate(): the field is read again
StopTerminate ==
    /\ ctlPc = "stop_terminate"
    /\ IF ffmpeg_process = None
          THEN /\ StopRaises
               /\ UNCHANGED termSent
          ELSE /\ termSent' = SigTerm
               /\ ctlPc' = "stop_wait"
               /\ UNCHANGED stopOutcome
    /\ UNCHANGED <<stopFrame, procState>>

\* self.ffmpeg_process.wait(timeout=5): returns once the process has exited,
\* raises TimeoutExpired when it is still alive after five seconds
StopWait ==
    /\ ctlPc = "stop_wait"
    /\ IF ffmpeg_process = None
          THEN StopRaises
          ELSE /\ ctlPc' = IF procState = "exited" THEN "stop_join_capture" ELSE "stop_kill"
               /\ UNCHANGED stopOutcome
    /\ UNCHANGED <<stopFrame, procState, termSent>>

\* except subprocess.TimeoutExpired: self.ffmpeg_process.kill()
StopKill ==
    /\ ctlPc = "stop_kill"
    /\ IF ffmpeg_process = None
          THEN /\ StopRaises
               /\ UNCHANGED procState
          ELSE /\ procState' = "exited"
               /\ ctlPc' = "stop_join_capture"
               /\ UNCHANGED stopOutcome
    /\ UNCHANGED <<stopFrame, termSent>>

\* if self.capture_thread: self.capture_thread.join(timeout=2): goes on when
\* the thread has ended or after two seconds, whichever comes first
StopJoinCapture ==
    /\ ctlPc = "stop_join_capture"
    /\ ctlPc' = "stop_join_process"
    /\ UNCHANGED <<stopFrame, procState, termSent, stopOutcome>>

\* if self.process_thread: self.process_thread.join(timeout=2); stop() returns
StopJoinProcess ==
    /\ ctlPc = "stop_join_process"
    /\ ctlPc' = "idle"
    /\ stopOutcome' = "returned"
    /\ UNCHANGED <<stopFrame, procState, termSent>>

StopStep ==
    StopCheck \/ StopTerminate \/ StopWait \/ StopKill \/ StopJoinCapture \/ StopJoinProcess

stop == StopBegin \/ StopStep

\* get_latest_result(): self.result_queue.get_nowait(), None on queue.Empty
get_latest_result ==
    /\ ctlPc = "idle"
    /\ IF result_queue = <<>>
          THEN /\ lastGot' = None
               /\ UNCHANGED result_queue
          ELSE /\ lastGot' = QueueGetItem(result_queue)
               /\ result_queue' = QueueGetRest(result_queue)
    /\ lastCall' = "get_latest_result"
    /\ UNCHANGED <<ctlFrame, running, ffmpeg_process, capture_thread, process_thread,
                   procState, termSent, capPc, anaPc, ctlPc, stopOutcome, results>>

\* what no accessor touches
getFrame == <<ctlFrame, running, ffmpeg_process, capture_thread, process_thread,
              procState, termSent, capPc, anaPc, stopOutcome>>

\* (mutation: the list is built newest first)
DrainAppend_Prepend(rs, x) == <<x>> \o rs
\* results.append(...)
DrainAppend(rs, x) == Append(rs, x)

\* get_all_results(): results = []
get_all_results_begin ==
    /\ ctlPc = "idle"
    /\ results' = <<>>
    /\ ctlPc' = "drain"
    /\ lastCall' = "get_all_results"
    /\ UNCHANGED <<getFrame, result_queue, lastGot>>

\* results.append(self.result_queue.get_nowait()) found a result
get_all_results_get ==
    /\ ctlPc = "drain"
    /\ result_queue # <<>>
    /\ results' = DrainAppend(results, QueueGetItem(result_queue))
    /\ result_queue' = QueueGetRest(result_queue)
    /\ UNCHANGED <<getFrame, ctlPc, lastCall, lastGot>>

\* get_nowait() raised queue.Empty: break, return results (the local list
\* goes to the caller and is no longer the processor's)
get_all_results_return ==
    /\ ctlPc = "drain"
    /\ result_queue = <<>>
    /\ results' = <<>>
    /\ ctlPc' = "idle"
    /\ UNCHANGED <<getFrame, result_queue, lastCall, lastGot>>

get_all_results == get_all_results_begin \/ get_all_results_get \/ get_all_results_return

\* the three accessors built on get_latest_result()
Projections == {"is_currently_replay", "get_current_time_info", "get_replay_indicators"}

\* (mutation: with nothing pending the accessor answers from the last result)
result_projection_Cached(name) ==
    /\ ctlPc = "idle"
    /\ IF result_queue = <<>>
          THEN UNCHANGED <<lastGot, result_queue>>
          ELSE /\ lastGot' = QueueGetItem(result_queue)
               /\ result_queue' = QueueGetRest(result_queue)
    /\ lastCall' = name
    /\ UNCHANGED <<getFrame, ctlPc, results>>

\* result = self.get_latest_result(); if result and 'content_analysis' in
\* result: return result['content_analysis'][...]; return None.  A result
\* is a non-empty dict that always has the key, and the field returned is that
\* of the result removed: lastGot names the result whose field was returned
result_projection(name) ==
    /\ ctlPc = "idle"
    /\ IF result_queue = <<>>
          THEN /\ lastGot' = None
               /\ UNCHANGED result_queue
          ELSE /\ lastGot' = QueueGetItem(result_queue)
               /\ result_queue' = QueueGetRest(result_queue)
    /\ lastCall' = name
    /\ UNCHANGED <<getFrame, ctlPc, results>>

is_currently_replay == result_projection("is_currently_replay")
get_current_time_info == result_projection("get_current_time_info")
get_replay_indicators == result_projection("get_replay_indicators")

\* ------------------------------------------------------ specifications
Next ==
    \/ start \/ stop \/ get_latest_result
    \/ CaptureStep
    \/ ProcessStep
    \/ ProcWriteFrame \/ ProcFinish \/ ProcTerminated

Spec == Init /\ [][Next]_vars

\* ---- the demux loop alone: the state right after start(), a subprocess
\* that writes a stream of DemuxStreams in arbitrary pieces and stays alive,
\* the capture thread reading and scanning, and no consumer; the Frame Queue
\* has the smallest capacity, so that the frames found go through every path
\* of the insertion
InitStarted(st) ==
        /\ running = TRUE
        /\ ffmpeg_process = None
        /\ capture_thread = 1
        /\ process_thread = 1
        /\ frame_queue = <<>>
        /\ result_queue = <<>>
        /\ max_queue_size = 1
        /\ procState = "none"
        /\ honoursTerm = TRUE
        /\ termSent = FALSE
        /\ script = StreamBytes(st)
        /\ pipe = <<>>
        /\ capPc = "launch"
        /\ buffer = <<>>
        /\ frame_count = 0
        /\ image = None
        /\ anaPc = "loop"
        /\ aImage = None
        /\ ctlPc = "idle"
        /\ lastCall = "start"
        /\ stopOutcome = "none"
        /\ lastGot = None
        /\ results = <<>>
        /\ stream = st
        /\ stdoutClosed = FALSE
        /\ capRaised = FALSE
        /\ eofSeen = FALSE
        /\ GenIdle
        /\ emitted = <<>>
        /\ admitted = 0
        /\ overflows = 0
        /\ evicted = 0
        /\ splitMarker = FALSE
        /\ dequeued = <<>>
        /\ resultsPut = 0
        /\ putSeq = <<>>
        /\ PureIdle

InitDemux == \E st \in DemuxStreams : InitStarted(st)

NextDemux == CaptureLaunch \/ CaptureStream \/ ProcWriteBytes

SpecDemux == InitDemux /\ [][NextDemux]_vars

\* ---- the demux loop with frames that Image.open may reject: streams of up
\* to MaxFaultFrames minimal frames, written in arbitrary pieces
DecodeStreams ==
    {[junk |-> <<>>, payloads |-> [i \in 1..n |-> <<>>]] : n \in 0..MaxFaultFrames}

InitDecode == \E st \in DecodeStreams : InitStarted(st)

NextDecode == NextDemux \/ CaptureDecodeFails

SpecDecode == InitDecode /\ [][NextDecode]_vars

\* ---- the consumer side alone: the state in which the subprocess has written
\* the frames of its stream and the capture thread has queued them all (the
\* stream fits the Frame Queue); either the subprocess has exited and the
\* capture thread has ended, or the subprocess stays alive and silent and the
\* capture thread waits in read().  The analysis thread and a caller using
\* every accessor, and stop()
InitAnalysis ==
    \E st \in PipelineStreams, qsize \in 1..MaxQueueSize, live \in BOOLEAN :
        /\ Len(st.payloads) \in 1..qsize
        /\ running = TRUE
        /\ ffmpeg_process = IF live THEN 1 ELSE None
        /\ capture_thread = 1
        /\ process_thread = 1
        /\ frame_queue = [i \in 1..Len(st.payloads) |-> i]
        /\ result_queue = <<>>
        /\ max_queue_size = qsize
        /\ procState = IF live THEN "alive" ELSE "exited"
        /\ honoursTerm = TRUE
        /\ termSent = FALSE
        /\ script = <<>>
        /\ pipe = <<>>
        /\ capPc = IF live THEN "read" ELSE "done"
        /\ buffer = <<>>
        /\ frame_count = Len(st.payloads)
        /\ image = Len(st.payloads)
        /\ anaPc = "loop"
        /\ aImage = None
        /\ ctlPc = "idle"
        /\ lastCall = "start"
        /\ stopOutcome = "none"
        /\ lastGot = None
        /\ results = <<>>
        /\ stream = st
        /\ stdoutClosed = FALSE
        /\ capRaised = FALSE
        /\ eofSeen = FALSE
        /\ GenIdle
        /\ emitted = StreamFrames(st)
        /\ admitted = Len(st.payloads)
        /\ overflows = 0
        /\ evicted = 0
        /\ splitMarker = FALSE
        /\ dequeued = <<>>
        /\ resultsPut = 0
        /\ putSeq = <<>>
        /\ PureIdle

NextAnalysis ==
    \/ ProcessStep
    \/ get_latest_result \/ get_all_results
    \/ is_currently_replay \/ get_current_time_info \/ get_replay_indicators
    \/ stop
    \/ ProcTerminated

SpecAnalysis == InitAnalysis /\ [][NextAnalysis]_vars

\* the analysis thread is scheduled and every OCR call returns or raises; a
\* stop() in progress runs on
FairSpecAnalysis ==
    /\ SpecAnalysis
    /\ WF_vars(ProcessStep)
    /\ WF_vars(StopStep)

\* ---- ContentAnalyzer alone: the lines recognised in one frame, then the
\* calls of analyze_texts and has_reached_20_min on them
\* the characters 0 5 6 9 : and space
TimeChars == {48, 53, 54, 57, 58, 32}

\* the text with its ASCII digits and separators replaced by the full-width
\* digits, U+FF1A, U+FF0E and the ideographic space
FullWidth(text) ==
    [i \in 1..Len(text) |->
        CASE text[i] \in AsciiDigit -> text[i] + 65248
          [] text[i] \in {58, 46} -> text[i] + 65248
          [] text[i] = 32 -> 12288
          [] OTHER -> text[i]]

\* 01:23  19:59  20:00  12:75  99:59
TimeSamples ==
    {<<48, 49, 58, 50, 51>>, <<49, 57, 58, 53, 57>>, <<50, 48, 58, 48, 48>>,
     <<49, 50, 58, 55, 53>>, <<57, 57, 58, 53, 57>>}
\* the keywords, the time samples, a space and an x
Pieces ==
    {replay_keywords[i] : i \in 1..Len(replay_keywords)}
    \cup {live_keywords[i] : i \in 1..Len(live_keywords)}
    \cup TimeSamples \cup {<<32>>, <<120>>}
\* 101:23 and 01:231: a third digit in front of the minutes, behind the seconds
ThreeDigitFields == {<<49, 48, 49, 58, 50, 51>>, <<48, 49, 58, 50, 51, 49>>}

Line(text) == [text |-> text]

\* one line of any text of up to MaxTextLen of TimeChars, plain or full-width;
\* or one line of up to MaxPieces pieces; or up to MaxLines lines of at most
\* one piece each; or one line with a time between three-digit fields
InitText ==
    /\ \/ \E n \in 0..MaxTextLen : \E t \in [1..n -> TimeChars], fw \in BOOLEAN :
             ocr_lines = <<Line(IF fw THEN FullWidth(t) ELSE t)>>
       \/ \E k \in 0..MaxPieces : \E ps \in [1..k -> Pieces] :
             ocr_lines = <<Line(Concat(ps))>>
       \/ \E k \in 0..MaxLines : \E ps \in [1..k -> Pieces \cup {<<>>}] :
             ocr_lines = [i \in 1..k |-> Line(ps[i])]
       \/ \E t \in ThreeDigitFields : ocr_lines = <<Line(t)>>
    /\ analysis = <<>>
    /\ reached = <<>>
    /\ CropIdle /\ CmdIdle /\ PipelineIdle

AnalyzeTexts ==
    /\ analysis = <<>>
    /\ analysis' = <<analyze_texts(ocr_lines)>>
    /\ UNCHANGED <<pipeVars, ocr_lines, reached, cropVars, cmdVars>>

HasReached20Min ==
    /\ reached = <<>>
    /\ reached' = <<has_reached_20_min(ocr_lines)>>
    /\ UNCHANGED <<pipeVars, ocr_lines, analysis, cropVars, cmdVars>>

NextText == AnalyzeTexts \/ HasReached20Min

SpecText == InitText /\ [][NextText]_vars

\* ---- the order of the lines: up to MaxLines lines, each of them two times
\* (20:00 01:23), one time, a keyword, a keyword and a time, a space, an x
\* or nothing
TwoTimes == <<50, 48, 58, 48, 48, 32, 48, 49, 58, 50, 51>>

InitLines ==
    /\ \E k \in 0..MaxLines :
          \E ps \in [1..k -> {TwoTimes, <<48, 49, 58, 50, 51>>, <<49, 57, 58, 53, 57>>,
                              replay_keywords[1], live_keywords[1],
                              replay_keywords[6] \o <<32, 48, 49, 58, 50, 51>>,
                              <<32>>, <<120>>, <<>>}] :
             ocr_lines = [i \in 1..k |-> Line(ps[i])]
    /\ analysis = <<>>
    /\ reached = <<>>
    /\ CropIdle /\ CmdIdle /\ PipelineIdle

SpecLines == InitLines /\ [][NextText]_vars

\* ---- ImageCropper alone: a picture size and a ratio in (0, 1], then the
\* two methods
Ratios == {[num |-> n, den |-> d] : n \in 1..MaxDen, d \in 1..MaxDen}

InitCrop ==
    /\ width \in 0..MaxDim
    /\ height \in 0..MaxDim
    /\ crop_ratio \in {r \in Ratios : r.num <= r.den}
    /\ cropped = <<>>
    /\ coords = <<>>
    /\ TextIdle /\ CmdIdle /\ PipelineIdle

CropTopRight ==
    /\ cropped = <<>>
    /\ cropped' = <<crop_top_right(width, height, crop_ratio)>>
    /\ UNCHANGED <<pipeVars, textVars, width, height, crop_ratio, coords, cmdVars>>

GetCropCoordinates ==
    /\ coords = <<>>
    /\ coords' = get_crop_coordinates(width, height, crop_ratio)
    /\ UNCHANGED <<pipeVars, textVars, width, height, crop_ratio, cropped, cmdVars>>

NextCrop == CropTopRight \/ GetCropCoordinates

SpecCrop == InitCrop /\ [][NextCrop]_vars

\* ---- command building alone: an FFmpegCommand and the processor's stream
\* settings, then the two builders
InputFlagLists ==
    {<<>>, <<<<"fflags", "nobuffer">>>>, <<<<"reconnect", "1">>>>,
     <<<<"fflags", "nobuffer">>, <<"reconnect", "1">>>>,
     <<<<"reconnect", "1">>, <<"fflags", "nobuffer">>>>}
OutputFlagLists ==
    {<<>>, <<<<"vcodec", "mjpeg">>>>, <<<<"vcodec", "mjpeg">>, <<"vframes", "2">>>>}
FilterLists == {<<>>, <<"fps=1.0">>, <<"fps=1.0", "scale=1280:-2">>}
StreamUrls == {"rtmp://host/live", "http://host/live.flv"}
Commands ==
    [executable : {"ffmpeg"}, hide_banner : BOOLEAN, log_level : {"error"},
     input_flags : InputFlagLists, input_source : {""} \cup StreamUrls,
     video_filters : FilterLists, output_flags : OutputFlagLists,
     output_format : {"", "image2pipe"}, output_target : {"-", "out.jpg"}]
Settings == [stream_url : StreamUrls, fps : {1, 2}, scale_width : {640, 1280}]

InitCommand ==
    /\ command \in Commands
    /\ cmd = <<>>
    /\ settings \in Settings
    /\ ffmpeg_cmd = <<>>
    /\ TextIdle /\ CropIdle /\ PipelineIdle

BuildCommand ==
    /\ cmd = <<>>
    /\ cmd' = build_command(command)
    /\ UNCHANGED <<pipeVars, textVars, cropVars, command, settings, ffmpeg_cmd>>

BuildFfmpegCommand ==
    /\ ffmpeg_cmd = <<>>
    /\ ffmpeg_cmd' = build_ffmpeg_command(settings)
    /\ UNCHANGED <<pipeVars, textVars, cropVars, command, settings, cmd>>

NextCommand == BuildCommand \/ BuildFfmpegCommand

SpecCommand == InitCommand /\ [][NextCommand]_vars

\* ---- the pipeline under fair scheduling: the controller's thread and the
\* two worker threads are scheduled by the host and never starve; nothing
\* obliges the OCR call to return or the subprocess to make progress
FairSpec ==
    /\ Spec
    /\ WF_vars(StopStep)
    /\ WF_vars(CaptureStep)
    /\ WF_vars(ProcessLoopCheck \/ ProcessGet \/ ProcessPutResult)

\* the pipeline with the failures _capture_frames provides for: the launch or
\* a read raising, a frame that does not decode, and end of file on stdout
\* before the subprocess is seen to have exited
NextFaults == Next \/ CaptureFault \/ ProcCloseStdout

\* a processor with a queue of one and a stream of up to MaxFaultFrames frames
InitFaults ==
    /\ \E n \in 0..MaxFaultFrames, honours \in BOOLEAN :
          InitFields([junk |-> <<>>, payloads |-> [i \in 1..n |-> <<>>]], 1, honours)
    /\ PureIdle

SpecFaults == InitFaults /\ [][NextFaults]_vars

\* the threads are scheduled and exceptions are never forced
FairSpecFaults ==
    /\ SpecFaults
    /\ WF_vars(StopStep)
    /\ WF_vars(CaptureStep)
    /\ WF_vars(ProcessLoopCheck \/ ProcessGet \/ ProcessPutResult)

\* ---- a processor that is started, stopped and started again.  Each start()
\* creates a capture thread and an analysis thread; thread g of either kind
\* belongs to the g-th start, and the subprocess launched by capture thread g
\* is subprocess g ("none" until it is launched).  self.running, self.ffmpeg_process, self.capture_thread
\* and self.process_thread are the fields all of them share.  Frames and
\* queues are left out: a read, a scan and the puts are one step back to the
\* loop test.
Gens == 1..starts

\* what no step of a restarted processor touches
genFrame == <<frame_queue, result_queue, max_queue_size, procVars, capVars, anaVars,
              lastGot, results, stream, capHist, anaHist, faultVars, pureVars, shotVars>>

\* start() while self.running: a warning, and return
GenStartRunning ==
    /\ ctlPc = "idle"
    /\ running
    /\ lastCall' = "start_noop"
    /\ UNCHANGED <<genFrame, genVars, running, ffmpeg_process, capture_thread,
                   process_thread, ctlPc, stopOutcome>>

\* start() otherwise: set the flag, create and start two new threads
GenStartThreads ==
    /\ ctlPc = "idle"
    /\ ~running
    /\ starts < MaxStarts
    /\ running' = TRUE
    /\ starts' = starts + 1
    /\ capture_thread' = starts + 1
    /\ process_thread' = starts + 1
    /\ capPcs' = Append(capPcs, "launch")
    /\ anaPcs' = Append(anaPcs, "loop")
    /\ procStates' = Append(procStates, "none")
    /\ lastCall' = "start"
    /\ UNCHANGED <<genFrame, handleOps, ffmpeg_process, ctlPc, stopOutcome>>

\* stop(): self.running = False
GenStopBegin ==
    /\ ctlPc = "idle"
    /\ running' = FALSE
    /\ ctlPc' = "stop_check"
    /\ stopOutcome' = "none"
    /\ lastCall' = "stop"
    /\ UNCHANGED <<genFrame, genVars, ffmpeg_process, capture_thread, process_thread>>

genStopFrame == <<genFrame, starts, capPcs, anaPcs, handleOps, running, ffmpeg_process,
                  capture_thread, process_thread, lastCall>>

\* if self.ffmpeg_process:
GenStopCheck ==
    /\ ctlPc = "stop_check"
    /\ ctlPc' = IF ffmpeg_process # None THEN "stop_terminate" ELSE "stop_join_capture"
    /\ UNCHANGED <<genStopFrame, procStates, stopOutcome>>

\* self.ffmpeg_process.terminate(), on whatever the field holds by now
GenStopTerminate ==
    /\ ctlPc = "stop_terminate"
    /\ IF ffmpeg_process = None
          THEN StopRaises
          ELSE /\ ctlPc' = "stop_wait"
               /\ UNCHANGED stopOutcome
    /\ UNCHANGED <<genStopFrame, procStates>>

\* self.ffmpeg_process.wait(timeout=5)
GenStopWait ==
    /\ ctlPc = "stop_wait"
    /\ IF ffmpeg_process = None
          THEN StopRaises
          ELSE /\ ctlPc' = IF procStates[ffmpeg_process] = "exited"
                              THEN "stop_join_capture" ELSE "stop_kill"
               /\ UNCHANGED stopOutcome
    /\ UNCHANGED <<genStopFrame, procStates>>

\* except subprocess.TimeoutExpired: self.ffmpeg_process.kill()
GenStopKill ==
    /\ ctlPc = "stop_kill"
    /\ IF ffmpeg_process = None
          THEN /\ StopRaises
               /\ UNCHANGED procStates
          ELSE /\ procStates' = [procStates EXCEPT ![ffmpeg_process] = "exited"]
               /\ ctlPc' = "stop_join_capture"
               /\ UNCHANGED stopOutcome
    /\ UNCHANGED genStopFrame

\* self.capture_thread.join(timeout=2): goes on when the thread has ended or
\* after two seconds
GenStopJoinCapture ==
    /\ ctlPc = "stop_join_capture"
    /\ ctlPc' = "stop_join_process"
    /\ UNCHANGED <<genStopFrame, procStates, stopOutcome>>

\* self.process_thread.join(timeout=2); stop() returns
GenStopJoinProcess ==
    /\ ctlPc = "stop_join_process"
    /\ ctlPc' = "idle"
    /\ stopOutcome' = "returned"
    /\ UNCHANGED <<genStopFrame, procStates>>

GenStop ==
    \/ GenStopBegin \/ GenStopCheck \/ GenStopTerminate \/ GenStopWait \/ GenStopKill
    \/ GenStopJoinCapture \/ GenStopJoinProcess

\* what no thread touches
genThreadFrame == <<genFrame, starts, running, capture_thread, process_thread,
                    ctlPc, lastCall, stopOutcome>>

\* capture thread g: self.ffmpeg_process = subprocess.Popen(...)
GenCaptureLaunch(g) ==
    /\ capPcs[g] = "launch"
    /\ ffmpeg_process' = g
    /\ procStates' = [procStates EXCEPT ![g] = "alive"]
    /\ capPcs' = [capPcs EXCEPT ![g] = "loop"]
    /\ UNCHANGED <<genThreadFrame, anaPcs, handleOps>>

\* while self.running and self.ffmpeg_process.poll() is None: the field is
\* read at every test; on None the AttributeError is caught by the outer
\* "except Exception" and the finally block runs
GenCaptureLoopCheck(g) ==
    /\ capPcs[g] = "loop"
    /\ capPcs' = [capPcs EXCEPT ![g] =
                     IF /\ running
                        /\ ffmpeg_process # None
                        /\ procStates[ffmpeg_process] = "alive"
                        THEN "read" ELSE "finally"]
    /\ UNCHANGED <<genThreadFrame, anaPcs, procStates, handleOps, ffmpeg_process>>

\* chunk = self.ffmpeg_process.stdout.read(4096), the scan and the puts; on
\* None the AttributeError leads to the finally block
GenCaptureRead(g) ==
    /\ capPcs[g] = "read"
    /\ capPcs' = [capPcs EXCEPT ![g] = IF ffmpeg_process # None THEN "loop" ELSE "finally"]
    /\ UNCHANGED <<genThreadFrame, anaPcs, procStates, handleOps, ffmpeg_process>>

\* finally: if self.ffmpeg_process: self.ffmpeg_process.terminate()
GenCaptureFinally(g) ==
    /\ capPcs[g] = "finally"
    /\ IF ffmpeg_process # None
          THEN /\ handleOps' = handleOps \cup {<<g, ffmpeg_process>>}
               /\ capPcs' = [capPcs EXCEPT ![g] = "clear"]
          ELSE /\ handleOps' = handleOps
               /\ capPcs' = [capPcs EXCEPT ![g] = "done"]
    /\ UNCHANGED <<genThreadFrame, anaPcs, procStates, ffmpeg_process>>

\* self.ffmpeg_process = None, and the thread ends
GenCaptureClear(g) ==
    /\ capPcs[g] = "clear"
    /\ handleOps' = IF ffmpeg_process # None
                       THEN handleOps \cup {<<g, ffmpeg_process>>}
                       ELSE handleOps
    /\ ffmpeg_process' = None
    /\ capPcs' = [capPcs EXCEPT ![g] = "done"]
    /\ UNCHANGED <<genThreadFrame, anaPcs, procStates>>

GenCaptureStep ==
    \E g \in Gens :
        \/ GenCaptureLaunch(g) \/ GenCaptureLoopCheck(g) \/ GenCaptureRead(g)
        \/ GenCaptureFinally(g) \/ GenCaptureClear(g)

\* analysis thread g: while self.running
GenProcessLoopCheck(g) ==
    /\ anaPcs[g] = "loop"
    /\ anaPcs' = [anaPcs EXCEPT ![g] = IF running THEN "get" ELSE "done"]
    /\ UNCHANGED <<genThreadFrame, capPcs, procStates, handleOps, ffmpeg_process>>

\* image = self.frame_queue.get(timeout=1.0): a frame, or queue.Empty
GenProcessGet(g) ==
    /\ anaPcs[g] = "get"
    /\ \E next \in {"ocr", "loop"} : anaPcs' = [anaPcs EXCEPT ![g] = next]
    /\ UNCHANGED <<genThreadFrame, capPcs, procStates, handleOps, ffmpeg_process>>

\* the OCR call and the put of the result, or the failure of the frame
GenProcessAnalyse(g) ==
    /\ anaPcs[g] = "ocr"
    /\ anaPcs' = [anaPcs EXCEPT ![g] = "loop"]
    /\ UNCHANGED <<genThreadFrame, capPcs, procStates, handleOps, ffmpeg_process>>

GenProcessStep ==
    \E g \in Gens : GenProcessLoopCheck(g) \/ GenProcessGet(g) \/ GenProcessAnalyse(g)

\* subprocess g exits: its stream ended, or it obeyed a SIGTERM
GenProcExits ==
    \E g \in Gens :
        /\ procStates[g] = "alive"
        /\ procStates' = [procStates EXCEPT ![g] = "exited"]
        /\ UNCHANGED <<genThreadFrame, capPcs, anaPcs, handleOps, ffmpeg_process>>

NextRestart ==
    \/ GenStartRunning \/ GenStartThreads \/ GenStop
    \/ GenCaptureStep \/ GenProcessStep \/ GenProcExits

\* a processor that has just been constructed
InitRestart ==
    /\ PipelineIdle
    /\ PureIdle

SpecRestart == InitRestart /\ [][NextRestart]_vars

\* ---- the one-shot capture: capture_frames(count) of the live capture
\* object, a generator, and the caller that iterates over it.  Its demux is
\* the code of _capture_frames word for word, so start_idx, end_idx,
\* jpeg_data and BufferAfterFrame serve here too.
\* the streams: a junk byte or none, then up to MaxShotFrames frames that
\* differ in their payload
ShotStreams ==
    {[junk |-> j, payloads |-> [i \in 1..n |-> <<i>>]] :
        j \in {<<>>, <<0>>}, n \in 0..MaxShotFrames}

\* what no step of the generator touches
shotFrame == <<running, ffmpeg_process, capture_thread, process_thread,
               frame_queue, result_queue, max_queue_size, honoursTerm, script,
               capPc, image, anaVars, ctlVars, stream, capHist, anaHist, faultVars,
               pureVars, starts, capPcs, anaPcs, procStates, handleOps>>

\* gen = capture_frames(count): the generator object; nothing of the body
\* has run yet
ShotCreate(count) ==
    /\ shotPc = "none"
    /\ shotPc' = "created"
    /\ self_frame_count' = IF count # None /\ count # 0 THEN count ELSE self_frame_count
    /\ UNCHANGED <<shotFrame, procState, termSent, pipe, buffer, frame_count,
                   self_process, yielded>>

\* (mutation: the frame just yielded is not compared with self.frame_count)
ShotResume_NoLimitCheck ==
    /\ shotPc = "yielded"
    /\ shotPc' = "scan"
    /\ UNCHANGED <<shotFrame, procState, termSent, pipe, buffer, frame_count,
                   self_frame_count, self_process, yielded>>

\* the first next(gen): "if count: self.set_frame_count(count)" (done at the
\* creation above, count being an argument), process = self.execute(),
\* buffer = b'', frame_count = 0
ShotExecute ==
    /\ shotPc = "created"
    /\ self_process' = 1
    /\ procState' = "alive"
    /\ buffer' = <<>>
    /\ frame_count' = 0
    /\ shotPc' = "loop"
    /\ UNCHANGED <<shotFrame, termSent, pipe, self_frame_count, yielded>>

\* while frame_count < self.frame_count and process.poll() is None; after the
\* loop, self.terminate()
ShotLoopCheck ==
    /\ shotPc = "loop"
    /\ shotPc' = IF frame_count < self_frame_count /\ procState = "alive"
                    THEN "read" ELSE "term_check"
    /\ UNCHANGED <<shotFrame, procState, termSent, pipe, buffer, frame_count,
                   self_frame_count, self_process, yielded>>

\* chunk = process.stdout.read(4096) on the unbuffered pipe: blocks while the
\* pipe is empty and open; "if not chunk: continue"; else buffer += chunk
ShotRead ==
    /\ shotPc = "read"
    /\ pipe # <<>> \/ procState = "exited"
    /\ LET n == IF Len(pipe) < ChunkSize THEN Len(pipe) ELSE ChunkSize
           chunk == SubSeq(pipe, 1, n)
       IN /\ pipe' = SliceFrom(pipe, n)
          /\ buffer' = buffer \o chunk
          /\ shotPc' = IF chunk = <<>> THEN "loop" ELSE "scan"
    /\ UNCHANGED <<shotFrame, procState, termSent, frame_count,
                   self_frame_count, self_process, yielded>>

\* the inner "while True": no start marker, or no end marker after it: break
ShotScanBreak ==
    /\ shotPc = "scan"
    /\ ~HasFrame(buffer)
    /\ shotPc' = "loop"
    /\ UNCHANGED <<shotFrame, procState, termSent, pipe, buffer, frame_count,
                   self_frame_count, self_process, yielded>>

\* a complete frame: cut it out, count it, yield it; the generator is
\* suspended at the yield
ShotScanFrame ==
    /\ shotPc = "scan"
    /\ HasFrame(buffer)
    /\ yielded' = Append(yielded, jpeg_data(buffer))
    /\ buffer' = BufferAfterFrame(buffer)
    /\ frame_count' = frame_count + 1
    /\ shotPc' = "yielded"
    /\ UNCHANGED <<shotFrame, procState, termSent, pipe, self_frame_count, self_process>>

\* the caller's next(gen) after a frame: "if frame_count >=
\* self.frame_count: break", else the scan goes on
ShotResume ==
    /\ shotPc = "yielded"
    /\ shotPc' = IF frame_count >= self_frame_count THEN "loop" ELSE "scan"
    /\ UNCHANGED <<shotFrame, procState, termSent, pipe, buffer, frame_count,
                   self_frame_count, self_process, yielded>>

\* the caller leaves its loop and drops the generator: GeneratorExit is
\* raised at the yield, and nothing after the loop runs
ShotClose ==
    /\ shotPc = "yielded"
    /\ shotPc' = "closed"
    /\ UNCHANGED <<shotFrame, procState, termSent, pipe, buffer, frame_count,
                   self_frame_count, self_process, yielded>>

\* terminate(): if self._process: self._process.terminate()
ShotTerminate ==
    /\ shotPc = "term_check"
    /\ IF self_process # None
          THEN /\ termSent' = SigTerm
               /\ shotPc' = "term_wait"
          ELSE /\ termSent' = termSent
               /\ shotPc' = "done"
    /\ UNCHANGED <<shotFrame, procState, pipe, buffer, frame_count,
                   self_frame_count, self_process, yielded>>

\* self._process.wait(timeout=5): returns once the process has exited,
\* raises TimeoutExpired when it is still alive after five seconds
ShotWait ==
    /\ shotPc = "term_wait"
    /\ shotPc' = IF procState = "exited" THEN "term_clear" ELSE "term_kill"
    /\ UNCHANGED <<shotFrame, procState, termSent, pipe, buffer, frame_count,
                   self_frame_count, self_process, yielded>>

\* except subprocess.TimeoutExpired: self._process.kill()
ShotKill ==
    /\ shotPc = "term_kill"
    /\ procState' = "exited"
    /\ shotPc' = "term_clear"
    /\ UNCHANGED <<shotFrame, termSent, pipe, buffer, frame_count,
                   self_frame_count, self_process, yielded>>

\* self._process = None; the generator returns (StopIteration)
ShotClear ==
    /\ shotPc = "term_clear"
    /\ self_process' = None
    /\ shotPc' = "done"
    /\ UNCHANGED <<shotFrame, procState, termSent, pipe, buffer, frame_count,
                   self_frame_count, yielded>>

ShotStep ==
    \/ ShotExecute \/ ShotLoopCheck \/ ShotRead \/ ShotScanBreak \/ ShotScanFrame
    \/ ShotResume \/ ShotClose
    \/ ShotTerminate \/ ShotWait \/ ShotKill \/ ShotClear

InitShot ==
    /\ \E st \in ShotStreams, honours \in BOOLEAN : InitFields(st, 1, honours)
    /\ PureIdle

NextShot ==
    \/ \E count \in 0..MaxShotFrames : ShotCreate(count)
    \/ ShotStep
    \/ ProcWriteBytes \/ ProcFinish \/ ProcTerminated

SpecShot == InitShot /\ [][NextShot]_vars

\* ====================================================== claims
InsertPcs == {"put", "evict", "reput"}

\* C1: the Frame Queue and the Result Queue each hold at most max_queue_size
\* elements in every reachable state.
C1_QueuesBounded ==
    /\ Len(frame_queue) <= max_queue_size
    /\ Len(result_queue) <= max_queue_size

\* C2: once the capture thread has finished inserting a decoded frame, every
\* frame decoded so far was admitted to the Frame Queue, and every insertion
\* that met a full queue evicted exactly one frame.
C2_NewFrameAlwaysAdmitted ==
    capPc \notin InsertPcs =>
        /\ admitted = frame_count
        /\ evicted = overflows

\* the last n of the frames 1..count, oldest first
LastFrames(count, n) ==
    LET m == IF count < n THEN count ELSE n
    IN [i \in 1..m |-> count - m + i]

\* C3: with no dequeue by the consumer so far, after the capture thread has
\* inserted frame_count frames into the initially empty Frame Queue the queue
\* holds exactly the last max_queue_size of them, oldest first.
C3_OverflowKeepsNewest ==
    (dequeued = <<>> /\ capPc \notin InsertPcs) =>
        frame_queue = LastFrames(frame_count, max_queue_size)

\* capacity + 2 frames were pushed with no consumer
C3_Witness ==
    /\ dequeued = <<>>
    /\ capPc \notin InsertPcs
    /\ frame_count = max_queue_size + 2
    /\ Len(frame_queue) = max_queue_size

IsPrefix(a, b) == Len(a) <= Len(b) /\ a = SubSeq(b, 1, Len(a))

\* the whole stream has been written, read and scanned
AllRead == script = <<>> /\ pipe = <<>> /\ capPc \in {"loop", "read"}

\* C4: for a stream of junk followed by N well-formed frames, the demux loop
\* emits the frames in order whatever the read chunks are: what it has emitted
\* is always a prefix of the N frames, and all N once the stream is read.
C4_ChunkIndependence ==
    /\ IsPrefix(emitted, StreamFrames(stream))
    /\ AllRead => emitted = StreamFrames(stream)

\* two frames after junk, read in chunks one of which ended inside a marker
C4_Witness ==
    /\ AllRead
    /\ stream.junk # <<>>
    /\ Len(emitted) >= 2
    /\ splitMarker

\* the pipeline has come to rest with the run flag still set: the subprocess
\* has exited, the capture thread has ended, no frame is queued or in analysis
AtRest ==
    /\ running
    /\ procState = "exited"
    /\ capPc = "done"
    /\ frame_queue = <<>>
    /\ anaPc \in {"loop", "get"}

\* C5: when the subprocess wrote two complete frames, closed its stream and
\* exited, and the Frame Queue has room for both, the pipeline comes to rest
\* only after exactly two results were put into the Result Queue.
C5_TwoFramesTwoResults ==
    (AtRest /\ Len(stream.payloads) = 2 /\ max_queue_size >= 2) => resultsPut = 2

\* C6: at the step where stop() returns, the subprocess launched by the
\* capture thread is not running (stated for the calls that stop a capture
\* thread which was streaming: it has decoded a frame, and it has ended by the
\* time stop() returns).
C6_StopLeavesNoProcess ==
    [][(StopJoinProcess /\ capPc = "done" /\ frame_count > 0) => procState' # "alive"]_vars

\* C7: stop() never ends by raising an exception.
C7_StopNeverRaises == stopOutcome # "raised"

\* C8: every call of stop() eventually returns to its caller.
C8_StopAlwaysReturns == [](ctlPc = "stop_check" => <>(stopOutcome = "returned"))

\* C9: start() with the run flag set changes nothing of the run flag, the
\* thread references, the threads, the subprocess and the queues; start() with
\* the run flag clear sets it and starts one capture and one analysis thread,
\* neither of which existed, and launches no subprocess itself.
C9_StartOnlyWhenStopped ==
    [][start =>
        IF running
           THEN UNCHANGED <<running, capture_thread, process_thread, capPc, anaPc,
                            ffmpeg_process, procState, frame_queue, result_queue>>
           ELSE /\ running'
                /\ capture_thread = None /\ capture_thread' # None
                /\ process_thread = None /\ process_thread' # None
                /\ capPc = "none" /\ capPc' = "launch"
                /\ anaPc = "none" /\ anaPc' = "loop"
                /\ UNCHANGED <<ffmpeg_process, procState, frame_queue, result_queue>>]_vars

\* start() was called while running, after the threads had been started
C9_Witness == lastCall = "start_noop" /\ running /\ capture_thread # None

\* C10: get_latest_result() returns None and leaves an empty Result Queue
\* empty; otherwise it removes and returns the most recently inserted result.
C10_ReturnsMostRecent ==
    [][get_latest_result =>
        IF result_queue = <<>>
           THEN lastGot' = None /\ result_queue' = <<>>
           ELSE /\ lastGot' = result_queue[Len(result_queue)]
                /\ Len(result_queue') = Len(result_queue) - 1]_vars

IsSuffix(a, b) == Len(a) <= Len(b) /\ a = SubSeq(b, Len(b) - Len(a) + 1, Len(b))

C12_ProjectionConsumesOne ==
    [][(is_currently_replay \/ get_current_time_info \/ get_replay_indicators) =>
        IF result_queue = <<>>
           THEN lastGot' = None /\ result_queue' = <<>>
           ELSE result_queue = <<lastGot'>> \o result_queue']_vars

\* one result was ever put, it was consumed, and an accessor called after
\* that returned None
C12_Witness ==
    /\ lastCall \in Projections
    /\ lastGot = None
    /\ Len(putSeq) = 1
    /\ result_queue = <<>>
    /\ anaPc \in {"loop", "get"}

\* C13: a frame whose analysis fails puts no result and sends the analysis
\* thread back to its loop test; the thread ends only from the loop test, with
\* the run flag clear.
C13_FailureKeepsTaskAlive ==
    [][/\ ProcessAnalyseFails => (anaPc' = "loop" /\ UNCHANGED <<result_queue, putSeq>>)
       /\ (anaPc # "done" /\ anaPc' = "done") => (anaPc = "loop" /\ ~running)]_vars

\* the analysis of frame 1 failed, frame 2 was dequeued next and its result
\* is in the Result Queue
C13_Witness ==
    /\ dequeued = <<1, 2>>
    /\ putSeq = <<2>>
    /\ result_queue = <<2>>
    /\ running

\* C14: the capture thread clears the process handle only when the
\* subprocess is no longer alive.
C14_HandleClearedAfterExit ==
    [][CaptureClear => procState # "alive"]_vars

\* every match of the time pattern in the normalised lines, in line order
Candidates(lines) ==
    Concat([i \in 1..Len(lines) |-> FindIter(normalize_for_time(lines[i].text), 1)])

\* C15: the time entries are exactly the candidates MM<sep>SS with
\* 0 <= MM <= 99 and 0 <= SS <= 59, in order, and the total seconds of each
\* entry is MM*60+SS.
C15_AcceptedRange ==
    analysis # <<>> =>
        LET tt == analysis[1].time_texts
            accepted == SelectSeq(Candidates(ocr_lines),
                            LAMBDA m : 0 <= m.mm /\ m.mm <= 99 /\ 0 <= m.ss /\ m.ss <= 59)
        IN /\ Len(tt) = Len(accepted)
           /\ \A i \in 1..Len(tt) :
                 /\ tt[i].mm = accepted[i].mm
                 /\ tt[i].ss = accepted[i].ss
                 /\ tt[i].sec = tt[i].mm * 60 + tt[i].ss

\* 99:59 was analysed and gave one entry of 5999 seconds
C15_Witness ==
    /\ ocr_lines = <<Line(<<57, 57, 58, 53, 57>>)>>
    /\ analysis # <<>>
    /\ Len(analysis[1].time_texts) = 1
    /\ analysis[1].time_texts[1].sec = 5999

\* the total seconds of the accepted candidates of the lines
AcceptedSecs(lines) ==
    LET found == Candidates(lines)
    IN {found[i].mm * 60 + found[i].ss :
           i \in {k \in 1..Len(found) : found[k].ss <= 59}}

\* C16: has_time holds iff some candidate is accepted, max_time_sec is the
\* largest total seconds of the accepted candidates, ge_20_min holds iff that
\* maximum is at least 1200, and has_reached_20_min returns ge_20_min.
C16_TimeSummary ==
    (analysis # <<>> /\ reached # <<>>) =>
        LET a == analysis[1]
            secs == AcceptedSecs(ocr_lines)
        IN /\ a.has_time = (secs # {})
           /\ secs # {} => a.max_time_sec = Max(secs)
           /\ a.ge_20_min = (secs # {} /\ Max(secs) >= 1200)
           /\ reached[1] = a.ge_20_min

\* the lines 19:59 and 20:00: the maximum is exactly 1200 seconds
C16_Witness ==
    /\ ocr_lines = <<Line(<<49, 57, 58, 53, 57>>), Line(<<50, 48, 58, 48, 48>>)>>
    /\ analysis # <<>>
    /\ analysis[1].max_time_sec = 1200
    /\ analysis[1].ge_20_min
    /\ reached = <<TRUE>>

\* C17: a line with a live-context keyword is not among the replay
\* indicators, whatever replay keywords it holds; a line that is not blank and
\* holds a replay keyword and no live-context keyword is among them.
C17_LiveExcludesReplay ==
    analysis # <<>> =>
        LET flagged == {analysis[1].replay_indicators[i].text :
                            i \in 1..Len(analysis[1].replay_indicators)}
        IN \A i \in 1..Len(ocr_lines) :
              LET t == ocr_lines[i].text
              IN /\ ContainsAny(t, live_keywords) => Strip(t) \notin flagged
                 /\ (Strip(t) # <<>> /\ ContainsAny(t, replay_keywords)
                        /\ ~ContainsAny(t, live_keywords)) => Strip(t) \in flagged

\* one line holding a live-context keyword (U+76F4 U+64AD) followed by a
\* replay keyword (U+91CD U+64AD) was analysed and not flagged
C17_Witness ==
    /\ ocr_lines = <<Line(<<30452, 25773, 37325, 25773>>)>>
    /\ analysis # <<>>
    /\ ~analysis[1].is_replay
    /\ analysis[1].replay_indicators = <<>>

\* floor(size * r) for the number r that the float crop_ratio is: the integer
\* part of the exact product
ExactFloor(size, ratio) == IntegerPart(ExactProduct(size, FloatRatio(ratio)))

\* C18: crop_top_right and get_crop_coordinates use the same rectangle, with
\* left = W - floor(W*r), top = 0, right = W and bottom = floor(H*r).
C18_SameRectangle ==
    (cropped # <<>> /\ coords # <<>>) =>
        LET box == cropped[1].box
        IN /\ box = coords
           /\ box[1] = width - ExactFloor(width, crop_ratio)
           /\ box[2] = 0
           /\ box[3] = width
           /\ box[4] = ExactFloor(height, crop_ratio)

\* the text with the full-width digits and separators put back to ASCII
HalfWidth(text) ==
    [i \in 1..Len(text) |->
        CASE text[i] \in FullWidthDigit -> text[i] - 65248
          [] text[i] \in {65306, 65294} -> text[i] - 65248
          [] text[i] = 12288 -> 32
          [] OTHER -> text[i]]

TimeFields(entries) ==
    [i \in 1..Len(entries) |->
        [mm |-> entries[i].mm, ss |-> entries[i].ss, sec |-> entries[i].sec,
         norm |-> entries[i].norm]]

\* C19: the entries found in a text are those found in its ASCII form: the
\* same mm, ss and total seconds where the ASCII form is accepted, and none
\* where it is rejected.
C19_FullWidthSameResult ==
    analysis # <<>> =>
        TimeFields(analysis[1].time_texts)
            = TimeFields(extract_all_times(
                  [i \in 1..Len(ocr_lines) |-> Line(HalfWidth(ocr_lines[i].text))]))

\* the full-width form of 05:59 was analysed and gave 359 seconds
C19_Witness ==
    /\ ocr_lines = <<Line(<<65296, 65301, 65306, 65301, 65305>>)>>
    /\ analysis # <<>>
    /\ analysis[1].max_time_sec = 359

\* C20: the processor's decode command is the executable, the banner and log
\* flags, the no-buffering flag, the reconnect flag, -i and the URL, -vf and
\* fps=<fps>,scale=<width>:-2, the image-pipe format, the mjpeg codec and "-";
\* a command built by FFmpegCommand.build_command starts with the executable,
\* ends with the output target, and has every input flag before -i.
C20_CommandOrder ==
    /\ ffmpeg_cmd # <<>> =>
          ffmpeg_cmd = <<"ffmpeg", "-hide_banner", "-loglevel", "error",
                         "-fflags", "nobuffer", "-reconnect", "1",
                         "-i", settings.stream_url,
                         "-vf", "fps=" \o ToString(settings.fps) \o ",scale="
                                    \o ToString(settings.scale_width) \o ":-2",
                         "-f", "image2pipe", "-vcodec", "mjpeg", "-">>
    /\ cmd # <<>> =>
          /\ cmd[1] = command.executable
          /\ cmd[Len(cmd)] = command.output_target
          /\ command.input_source # "" =>
                \E p \in 1..(Len(cmd) - 1) :
                    /\ cmd[p] = "-i"
                    /\ cmd[p + 1] = command.input_source
                    /\ \A f \in 1..Len(command.input_flags) :
                          \E q \in 1..(p - 2) :
                              /\ cmd[q] = "-" \o command.input_flags[f][1]
                              /\ cmd[q + 1] = command.input_flags[f][2]

\* both commands were built, the FFmpegCommand being that of the live capture
C20_Witness ==
    /\ command = LiveCaptureCommand("rtmp://host/live")
    /\ cmd # <<>>
    /\ ffmpeg_cmd # <<>>

\* a two-byte marker sits at offset i (counted from 0) of buf
MarkerAt(buf, pat, i) ==
    /\ i >= 0
    /\ i + 2 <= Len(buf)
    /\ buf[i + 1] = pat[1]
    /\ buf[i + 2] = pat[2]

StartOffsets(buf) == {i \in 0..Len(buf) : MarkerAt(buf, jpeg_start, i)}
EndOffsetsAfter(buf, s) == {i \in (s + 2)..Len(buf) : MarkerAt(buf, jpeg_end, i)}
Least(S) == CHOOSE x \in S : \A y \in S : x <= y
BytesBetween(buf, a, b) == [k \in 1..(b - a) |-> buf[a + k]]

\* the buffer holds a start marker and an end marker two or more bytes after it
StartThenEnd(buf) ==
    /\ StartOffsets(buf) # {}
    /\ EndOffsetsAfter(buf, Least(StartOffsets(buf))) # {}

\* the buffer holds a start marker and no end marker after it
UnmatchedStart(buf) ==
    /\ StartOffsets(buf) # {}
    /\ EndOffsetsAfter(buf, Least(StartOffsets(buf))) = {}

\* a step of the capture thread's scan
ScanStep == capPc = "scan" /\ <<capVars, emitted>>' # <<capVars, emitted>>

\* C21: when the buffer holds a start marker and an end marker after it, one
\* demux step emits exactly the bytes from the first start marker through
\* the first end marker that begins two or more bytes after that start, both
\* markers included, and the buffer afterwards is exactly the bytes that
\* followed that end marker.
C21_DemuxStep ==
    [][(ScanStep /\ StartThenEnd(buffer)) =>
          LET s == Least(StartOffsets(buffer))
              e == Least(EndOffsetsAfter(buffer, s))
          IN /\ emitted' = Append(emitted, BytesBetween(buffer, s, e + 2))
             /\ buffer' = BytesBetween(buffer, e + 2, Len(buffer))]_vars

\* the first frame was cut out of a chunk that had junk in front of it and
\* the beginning of the next frame behind it
C21_Witness ==
    /\ capPc = "put"
    /\ stream.junk # <<>>
    /\ emitted = <<Frame(stream.payloads[1])>>
    /\ buffer # <<>>

\* C22: when the buffer holds a start marker and no end marker after it, the
\* scan emits no frame, stops (back to the loop test) and keeps the bytes
\* from that start marker onward in the buffer; it does so on every later
\* chunk that still brings no end marker, and it raises nothing.
C22_UnmatchedStartKept ==
    [][(ScanStep /\ UnmatchedStart(buffer)) =>
          /\ emitted' = emitted
          /\ frame_queue' = frame_queue
          /\ capPc' = "loop"
          /\ capRaised' = capRaised
          /\ IsSuffix(SliceFrom(buffer, Least(StartOffsets(buffer))), buffer')]_vars

\* a scan has stopped on a start marker followed by payload and no end
\* marker, and the pipe holds a further chunk
C22_Witness ==
    /\ capPc = "loop"
    /\ emitted = <<>>
    /\ UnmatchedStart(buffer)
    /\ Len(buffer) >= Least(StartOffsets(buffer)) + 3
    /\ pipe # <<>>

\* C23: once a scan has finished, the buffer holds no byte in front of the
\* first start marker that still awaits its end marker.
C23_NoJunkKept ==
    (capPc = "loop" /\ UnmatchedStart(buffer)) => Least(StartOffsets(buffer)) = 0

\* C24: when a demuxed byte range does not decode as an image, the range is
\* gone from the buffer, nothing is put into the Frame Queue, the capture
\* thread neither ends nor raises, and the scan goes on with the rest of the
\* buffer: once the stream has been read every frame of it has been cut out
\* and every one that decoded has been put into the Frame Queue.
C24_DecodeFailureSkipsFrame ==
    [][/\ CaptureDecodeFails =>
             /\ StartThenEnd(buffer)
             /\ buffer' = BytesBetween(buffer,
                              Least(EndOffsetsAfter(buffer, Least(StartOffsets(buffer)))) + 2,
                              Len(buffer))
             /\ frame_queue' = frame_queue
             /\ admitted' = admitted
             /\ frame_count' = frame_count
             /\ capPc' = "scan"
             /\ capRaised' = capRaised
       /\ AllRead' => (emitted' = StreamFrames(stream') /\ admitted' = frame_count')]_vars

\* the first range did not decode and the second one, cut out after it, has
\* been decoded and is about to be put into the Frame Queue
C24_Witness ==
    /\ capPc = "put"
    /\ Len(emitted) = 2
    /\ frame_count = 1
    /\ image = 1
    /\ admitted = 0
    /\ frame_queue = <<>>

\* the positions inside "while self.running and self.ffmpeg_process.poll() is None"
LoopPcs == {"loop", "read", "scan", "put", "evict", "reput"}

\* C25: once the run flag is cleared or the subprocess has exited, the
\* capture thread eventually leaves its streaming loop; a read that returns
\* no bytes while the subprocess is alive changes neither the buffer nor the
\* Frame Queue and leads back to the loop test.
C25_CaptureLeavesLoop ==
    /\ ((~running \/ procState = "exited") /\ capPc \in LoopPcs) ~> (capPc \notin LoopPcs)
    /\ [][(CaptureRead /\ pipe = <<>> /\ procState = "alive") =>
             /\ buffer' = buffer
             /\ frame_queue' = frame_queue
             /\ capPc' = "loop"]_vars

\* a read met end of file while the subprocess was alive, and after stop()
\* cleared the flag the thread has left the loop and ended
C25_Witness ==
    /\ eofSeen
    /\ ~running
    /\ ~capRaised
    /\ capPc = "done"

\* C26: if launching the subprocess or reading its stdout raises, the capture
\* thread ends without propagating the exception, the stop path runs (the
\* run flag ends up cleared and the subprocess, if any, is no longer alive),
\* and the analysis thread is not disturbed by the failure.
C26_FailureStopsPipeline ==
    /\ capRaised ~> (capPc = "done" /\ ~running /\ procState # "alive")
    /\ [][(capRaised' /\ ~capRaised) => anaVars' = anaVars]_vars

\* the positions inside the analysis thread's "while self.running"
AnalysisPcs == {"loop", "get", "ocr", "put_result"}

\* C27: after the run flag is cleared the analysis thread eventually ends,
\* given that the OCR call in progress returns; it sees the flag at the
\* latest when its wait on the Frame Queue times out: with an empty Frame
\* Queue the wait leads to the loop test and the loop test to the end.
C27_AnalysisReachesIdle ==
    /\ (~running /\ anaPc \in AnalysisPcs) ~> (anaPc = "done")
    /\ [][(~running /\ frame_queue = <<>> /\ anaPc' # anaPc) =>
             \/ anaPc = "get" /\ anaPc' = "loop"
             \/ anaPc = "loop" /\ anaPc' = "done"
             \/ anaPc \in {"ocr", "put_result"}]_vars

\* every frame was analysed, stop() has cleared the flag, the Frame Queue is
\* empty and the thread has ended
C27_Witness ==
    /\ ~running
    /\ anaPc = "done"
    /\ frame_queue = <<>>
    /\ resultsPut = Len(stream.payloads)
    /\ stopOutcome = "returned"

\* a is b with some elements left out
RECURSIVE IsSubsequence(_, _)
IsSubsequence(a, b) ==
    IF a = <<>> THEN TRUE
    ELSE IF b = <<>> THEN FALSE
    ELSE IF Head(a) = Head(b) THEN IsSubsequence(Tail(a), Tail(b))
    ELSE IsSubsequence(a, Tail(b))

\* C28: every frame the analysis thread dequeues and analyses without error
\* gives exactly one result put into the Result Queue, the results are put in
\* the order their frames were dequeued, and a result put when the Result
\* Queue is full (it holds max_queue_size results) evicts the oldest pending
\* result and is itself admitted.
C28_OneResultPerFrame ==
    /\ [][ProcessPutResult =>
             /\ resultsPut' = resultsPut + 1
             /\ putSeq' = Append(putSeq, aImage)
             /\ aImage = dequeued[Len(dequeued)]
             /\ result_queue' = IF Len(result_queue) >= max_queue_size
                                   THEN Append(Tail(result_queue), aImage)
                                   ELSE Append(result_queue, aImage)]_vars
    /\ [](IsSubsequence(putSeq, dequeued))

\* C29: only start() and stop() write the run flag: no step of the capture
\* thread, of the analysis thread or of the subprocess changes it, whether
\* the subprocess exits on its own, a frame fails, or the capture thread
\* meets an exception.
C29_OnlyControllerWritesFlag ==
    [][(running' # running) =>
          /\ start \/ stop
          /\ lastCall' \in {"start", "stop"}
          /\ UNCHANGED <<procVars, buffer, frame_count, image, aImage,
                         frame_queue, result_queue, capHist, anaHist, faultVars>>]_vars

\* the launch or a read raised, the capture thread has ended, and the run
\* flag is still set
C29_Witness ==
    /\ capRaised
    /\ capPc = "done"
    /\ running

\* C30: only the capture thread inserts into the Frame Queue and signals,
\* kills or clears the subprocess handle, only the analysis thread inserts
\* into the Result Queue, and no step of start(), stop() or an accessor
\* touches the subprocess or adds to either queue.
C30_SoleWriters ==
    [][/\ (admitted' # admitted) => (capPc \in InsertPcs /\ capPc' # capPc)
       /\ (resultsPut' # resultsPut) => (anaPc = "put_result" /\ anaPc' # anaPc)
       /\ (termSent' # termSent \/ ffmpeg_process' # ffmpeg_process) => capPc' # capPc
       /\ (ctlVars' # ctlVars) =>
             /\ UNCHANGED <<ffmpeg_process, termSent, procState>>
             /\ Len(frame_queue') <= Len(frame_queue)
             /\ Len(result_queue') <= Len(result_queue)]_vars

\* the fields mm and ss stand at position i of the normalised text s, as one
\* or two digits, a separator, at most one white space and two digits, with
\* no digit in front of the first field and none behind the second
FieldsAt(s, i, mm, ss) ==
    \E d \in 1..2, w \in 0..1 :
        LET a == i + d + w + 1
        IN /\ i >= 1
           /\ a + 1 <= Len(s)
           /\ \A k \in i..(i + d - 1) : IsDigit(s[k])
           /\ mm = (IF d = 2 THEN 10 * DigitValue(s[i]) + DigitValue(s[i + 1])
                             ELSE DigitValue(s[i]))
           /\ s[i + d] \in SepClass
           /\ w = 1 => IsSpace(s[i + d + 1])
           /\ IsDigit(s[a]) /\ IsDigit(s[a + 1])
           /\ ss = 10 * DigitValue(s[a]) + DigitValue(s[a + 1])
           /\ i = 1 \/ ~IsDigit(s[i - 1])
           /\ a + 1 = Len(s) \/ ~IsDigit(s[a + 2])

AllDigits(text) == \A k \in 1..Len(text) : IsDigit(text[k])

\* C31: a digit run is never split into time fields: every time entry stands
\* in its line with no digit in front of its minutes and none behind its
\* seconds, so lines that are digits only (four or more of them included) and
\* lines such as 101:23 or 01:231 give no entry.
C31_DigitRunNotSplit ==
    analysis # <<>> =>
        /\ \A n \in 1..Len(analysis[1].time_texts) :
              LET e == analysis[1].time_texts[n]
                  s == normalize_for_time(e.text)
              IN /\ \E l \in 1..Len(ocr_lines) : ocr_lines[l].text = e.text
                 /\ \E i \in 1..Len(s) : FieldsAt(s, i, e.mm, e.ss)
        /\ (\A l \in 1..Len(ocr_lines) :
               \/ AllDigits(normalize_for_time(ocr_lines[l].text))
               \/ ocr_lines[l].text \in ThreeDigitFields)
           => analysis[1].time_texts = <<>>

\* the line 101:23 has been analysed
C31_Witness ==
    /\ analysis # <<>>
    /\ ocr_lines = <<Line(<<49, 48, 49, 58, 50, 51>>)>>
    /\ analysis[1].time_texts = <<>>

\* word occurs in text
Occurs(word, text) ==
    \E i \in 0..(Len(text) - Len(word)) : SubSeq(text, i + 1, i + Len(word)) = word

\* the line is not blank, holds a replay keyword and no live-context keyword
IsReplayLine(text) ==
    /\ \E k \in 1..Len(text) : ~IsSpace(text[k])
    /\ \E w \in 1..Len(replay_keywords) : Occurs(replay_keywords[w], text)
    /\ \A w \in 1..Len(live_keywords) : ~Occurs(live_keywords[w], text)

ReplayLines == {i \in 1..Len(ocr_lines) : IsReplayLine(ocr_lines[i].text)}

\* the k-th smallest element of a set of numbers
Kth(S, k) == CHOOSE x \in S : Cardinality({y \in S : y < x}) = k - 1

\* C32: is_replay is true iff replay_indicators is not empty, and
\* replay_indicators holds exactly the lines that are not blank after
\* stripping and for which is_replay_indicator holds, one entry per line, be
\* it none, one or several.
C32_ReplayIndicators ==
    analysis # <<>> =>
        LET ind == analysis[1].replay_indicators
        IN /\ analysis[1].is_replay <=> (ind # <<>>)
           /\ Len(ind) = Cardinality(ReplayLines)
           /\ \A k \in 1..Len(ind) :
                 ind[k].text = Strip(ocr_lines[Kth(ReplayLines, k)].text)

\* two lines were analysed and both are replay indicators
C32_Witness ==
    /\ analysis # <<>>
    /\ Len(ocr_lines) = 2
    /\ Len(analysis[1].replay_indicators) = 2
    /\ analysis[1].is_replay

LineOrders(n) == {p \in [1..n -> 1..n] : \A i, j \in 1..n : i # j => p[i] # p[j]}
Permuted(lines, p) == [i \in 1..Len(lines) |-> lines[p[i]]]
Entries(seq) == {seq[i] : i \in 1..Len(seq)}

\* what analyze_texts returns for each line alone, put together in line order
PerLineTimes(lines) ==
    Concat([i \in 1..Len(lines) |-> analyze_texts(<<lines[i]>>).time_texts])
PerLineIndicators(lines) ==
    Concat([i \in 1..Len(lines) |-> analyze_texts(<<lines[i]>>).replay_indicators])

\* the entries stand in s one after the other, from position from on
RECURSIVE LeftToRight(_, _, _)
LeftToRight(s, entries, from) ==
    \/ entries = <<>>
    \/ \E i \in from..Len(s) :
          /\ FieldsAt(s, i, Head(entries).mm, Head(entries).ss)
          /\ LeftToRight(s, Tail(entries), i + 1)

\* C33: time_texts and replay_indicators follow the order of the lines and,
\* within a line, the order of the matches from left to right; analysing
\* the lines in another order gives the entries in that order, the same set
\* of entries and the same has_time, is_replay, max_time_sec and ge_20_min.
C33_LineOrder ==
    analysis # <<>> =>
        IF Len(ocr_lines) = 1
        THEN LeftToRight(normalize_for_time(ocr_lines[1].text), analysis[1].time_texts, 1)
        ELSE
        /\ analysis[1].time_texts = PerLineTimes(ocr_lines)
        /\ analysis[1].replay_indicators = PerLineIndicators(ocr_lines)
        /\ \A l \in 1..Len(ocr_lines) :
              LeftToRight(normalize_for_time(ocr_lines[l].text),
                          analyze_texts(<<ocr_lines[l]>>).time_texts, 1)
        /\ \A p \in LineOrders(Len(ocr_lines)) :
              LET r == analyze_texts(Permuted(ocr_lines, p))
              IN /\ r.time_texts = PerLineTimes(Permuted(ocr_lines, p))
                 /\ r.replay_indicators = PerLineIndicators(Permuted(ocr_lines, p))
                 /\ Entries(r.time_texts) = Entries(analysis[1].time_texts)
                 /\ Entries(r.replay_indicators) = Entries(analysis[1].replay_indicators)
                 /\ r.has_time = analysis[1].has_time
                 /\ r.is_replay = analysis[1].is_replay
                 /\ r.max_time_sec = analysis[1].max_time_sec
                 /\ r.ge_20_min = analysis[1].ge_20_min

\* two lines were analysed, the first with 20:00 and 01:23 and the second
\* with another time: three entries, in the order of the lines and of the
\* matches, the later and smaller time of the first line second
C33_Witness ==
    /\ analysis # <<>>
    /\ Len(ocr_lines) = 2
    /\ ocr_lines[1].text = TwoTimes
    /\ Len(analysis[1].time_texts) = 3
    /\ analysis[1].time_texts[1].sec = 1200
    /\ analysis[1].time_texts[2].sec = 83
    /\ analysis[1].time_texts[3].text = ocr_lines[2].text
    /\ analysis[1].time_texts[3].sec \notin {1200, 83}

\* C34: whatever the interleaving of the capture thread's puts and evictions
\* with the analysis thread's gets, the frames dequeued by the analysis
\* thread are frames the capture thread decoded, each at most once and in
\* the order in which they were decoded.
C34_DequeuedInDecodeOrder ==
    /\ \A i \in 1..Len(dequeued) : dequeued[i] \in 1..frame_count
    /\ \A i, j \in 1..Len(dequeued) : i < j => dequeued[i] < dequeued[j]
    /\ IsSubsequence(dequeued, [k \in 1..frame_count |-> k])

\* the first and the third frame were dequeued; the second was evicted from
\* the Frame Queue in between
C34_Witness ==
    /\ dequeued = <<1, 3>>
    /\ evicted >= 1
    /\ frame_count = 3

ActiveCapture == {g \in Gens : capPcs[g] # "done"}
ActiveAnalysis == {g \in Gens : anaPcs[g] # "done"}

\* C35: across start() and stop() calls, a stop() whose joins timed out and
\* a new start() included, at most one capture thread and at most one
\* analysis thread are active, and a capture thread terminates or clears
\* only the subprocess it launched itself.
C35_OneThreadEach ==
    /\ Cardinality(ActiveCapture) <= 1
    /\ Cardinality(ActiveAnalysis) <= 1
    /\ \A op \in handleOps : op[1] = op[2]

\* C36: once stop() has cleared the run flag (it is not set again), the
\* analysis thread dequeues at most one further frame and puts at most one
\* further result: whatever the two counts are at a moment after the clear,
\* they never exceed those values by more than one afterwards.
C36_AtMostOneMoreFrame ==
    \A n \in 0..MaxFrames, m \in 0..MaxFrames :
        []((~running /\ lastCall = "stop" /\ Len(dequeued) = n /\ resultsPut = m)
              => [](Len(dequeued) <= n + 1 /\ resultsPut <= m + 1))

\* the flag is cleared while the thread, past its loop test, is about to take
\* a frame, and another frame waits behind that one
C36_Witness ==
    /\ ~running
    /\ lastCall = "stop"
    /\ anaPc = "get"
    /\ Len(frame_queue) = 2

\* a rectangle inside a width x height picture, against its top and right
\* edges, floor(width * r) wide and floor(height * r) high
InsideTopRight(box) ==
    /\ 0 <= box[1] /\ box[1] <= box[3] /\ box[3] = width
    /\ 0 = box[2] /\ box[2] <= box[4] /\ box[4] <= height
    /\ box[3] - box[1] = ExactFloor(width, crop_ratio)
    /\ box[4] - box[2] = ExactFloor(height, crop_ratio)

\* C37: for every image size W >= 0, H >= 0 and crop ratio r in (0, 1] the
\* crop rectangle lies inside the image, 0 <= left <= right = W and
\* 0 = top <= bottom <= H, and is floor(W*r) wide and floor(H*r) high.
C37_CropInsideImage ==
    /\ cropped # <<>> => InsideTopRight(cropped[1].box)
    /\ coords # <<>> => InsideTopRight(coords)

\* C38: the one-shot generator yields at most self.frame_count frames, and
\* they are the first frames of the stream, in stream order; once it has
\* returned, because frame_count frames were yielded or the subprocess
\* exited, the subprocess has been sent SIGTERM unless it was gone already,
\* it has exited (killed when it was still alive after the wait), and
\* self._process is None.
C38_OneShotCapture ==
    /\ Len(yielded) <= self_frame_count
    /\ IsPrefix(yielded, StreamFrames(stream))
    /\ shotPc = "done" =>
          /\ termSent \/ script = <<>>
          /\ procState = "exited"
          /\ self_process = None

\* one frame was asked of a stream of two, the subprocess ignored SIGTERM and
\* was killed, and the generator has returned
C38_Witness ==
    /\ shotPc = "done"
    /\ Len(stream.payloads) = 2
    /\ self_frame_count = 1
    /\ yielded = <<Frame(<<1>>)>>
    /\ ~honoursTerm
    /\ termSent
    /\ procState = "exited"
    /\ self_process = None
====
